---- MODULE Spec2Model ----
(***************************************************************************)
(* ferrite-nn: the epoch-driven training loop (src/train/loop_fn.rs,       *)
(* src/train/trainer.rs) over the dense network (src/math, src/layers,      *)
(* src/network, src/optim, src/loss), and the studio's training lifecycle  *)
(* (studio/handlers/train.rs, architect.rs, dataset.rs, train_sse.rs).     *)
(*                                                                         *)
(* f64 values are modelled as exact rationals <<num, den>> in lowest terms *)
(* with den > 0.  std's exp and ln are not rational; they are modelled by  *)
(* the rational surrogates Exp / Ln below (monotone, Exp positive,         *)
(* Exp(0) = 1, Ln(1) = 0, Ln negative below 1).                            *)
(***************************************************************************)
EXTENDS Integers, Sequences, FiniteSets, TLC

(***************************************************************************)
(* Bounds of the model.                                                    *)
(***************************************************************************)
MaxSamples == 2
MaxEpochs == 2
MaxBatch == 2
MaxRuns == 2
MaxSse == 1
MaxDim == 2         \* rows, columns and vector lengths of the library calls
MaxOps == 3         \* forward passes, gradient computations and steps on a network

(***************************************************************************)
(* Rational arithmetic standing for f64.                                   *)
(***************************************************************************)
Abs(x) == IF x < 0 THEN -x ELSE x

RECURSIVE GCD(_, _)
GCD(a, b) == IF b = 0 THEN a ELSE GCD(b, a % b)

RNormBy(n, d, g) == IF d < 0 THEN <<(-n) \div g, (-d) \div g>>
                   ELSE <<n \div g, d \div g>>
RNorm(n, d) == RNormBy(n, d, GCD(Abs(n), Abs(d)))

R(n) == <<n, 1>>
RZero == <<0, 1>>
ROne == <<1, 1>>
RNeg(x) == <<-x[1], x[2]>>
RAddBy(x, y, g) ==
    RNorm(x[1] * (y[2] \div g) + y[1] * (x[2] \div g), (x[2] \div g) * y[2])
RAdd(x, y) == RAddBy(x, y, GCD(x[2], y[2]))
RSub(x, y) == RAdd(x, RNeg(y))
RMulBy(a, b) == RNorm(a[1] * b[1], a[2] * b[2])
RMul(x, y) == RMulBy(RNorm(x[1], y[2]), RNorm(y[1], x[2]))
RDiv(x, y) == RMul(x, RNorm(y[2], y[1]))
RLess(x, y) == x[1] * y[2] < y[1] * x[2]
RLeq(x, y) == x[1] * y[2] <= y[1] * x[2]
RMax(x, y) == IF RLess(x, y) THEN y ELSE x

RECURSIVE RSumFrom(_, _)
RSumFrom(s, k) == IF k > Len(s) THEN RZero ELSE RAdd(s[k], RSumFrom(s, k + 1))
RSum(s) == RSumFrom(s, 1)

\* floor of a rational (\div rounds towards minus infinity).
RFloor(x) == x[1] \div x[2]

RECURSIVE Pow2(_)
Pow2(k) == IF k = 0 THEN 1 ELSE 2 * Pow2(k - 1)

\* f64::exp on x <= 0 (the only arguments softmax gives it), as the step
\* function 2^floor(x), flat below 2^-2; f64::ln on (0, 1] as (y - 1) / y.
Exp(x) ==
    IF RLess(RZero, x) THEN RAdd(ROne, x)
    ELSE IF RFloor(x) < -2 THEN <<1, 4>>
    ELSE <<1, Pow2(-RFloor(x))>>
Ln(y) == IF RLeq(y, ROne) THEN RDiv(RSub(y, ROne), y) ELSE RSub(y, ROne)

(***************************************************************************)
(* Matrix (src/math/matrix.rs).                                            *)
(***************************************************************************)
MatrixPanic == [rows |-> 0, cols |-> 0, data |-> <<>>, panic |-> TRUE]
IsPanic(m) == "panic" \in DOMAIN m

zeros(rows, cols) ==
    [rows |-> rows, cols |-> cols,
     data |-> [i \in 1..rows |-> [j \in 1..cols |-> RZero]]]

\* rows: data.len(), cols: data[0].len(): indexing an empty Vec panics, the
\* other rows are not looked at.
from_data(data) ==
    IF Len(data) = 0 THEN MatrixPanic
    ELSE [rows |-> Len(data), cols |-> Len(data[1]), data |-> data]

transpose(m) ==
    [rows |-> m.cols, cols |-> m.rows,
     data |-> [i \in 1..m.cols |-> [j \in 1..m.rows |-> m.data[j][i]]]]

\* m.map(functor): the closure is applied to every entry, row by row.
map(m, functor) ==
    from_data([i \in 1..Len(m.data) |->
                 [j \in 1..Len(m.data[i]) |-> functor[m.data[i][j]]]])

\* The entries a closure handed to map is applied to.
EntriesOf(m) == {m.data[i][j] : i \in 1..m.rows, j \in 1..m.cols}

\* m.map(|x| x * k)
Scaled(m, k) == map(m, [x \in EntriesOf(m) |-> RMul(x, k)])

add(a, b) ==
    IF a.rows # b.rows \/ a.cols # b.cols THEN MatrixPanic
    ELSE [rows |-> a.rows, cols |-> a.cols,
          data |-> [i \in 1..a.rows |->
                      [j \in 1..a.cols |-> RAdd(a.data[i][j], b.data[i][j])]]]

sub(a, b) ==
    IF a.rows # b.rows \/ a.cols # b.cols THEN MatrixPanic
    ELSE [rows |-> a.rows, cols |-> a.cols,
          data |-> [i \in 1..a.rows |->
                      [j \in 1..a.cols |-> RSub(a.data[i][j], b.data[i][j])]]]

\* Mutant: the inner dimensions are not compared.
matmulUnchecked(a, b) ==
    [rows |-> a.rows, cols |-> b.cols,
     data |-> [i \in 1..a.rows |->
                 [j \in 1..b.cols |->
                    RSum([k \in 1..(IF a.cols < b.rows THEN a.cols ELSE b.rows) |->
                            RMul(a.data[i][k], b.data[k][j])])]]]

matmul(a, b) ==
    IF a.cols # b.rows THEN MatrixPanic
    ELSE [rows |-> a.rows, cols |-> b.cols,
          data |-> [i \in 1..a.rows |->
                      [j \in 1..b.cols |->
                         RSum([k \in 1..a.cols |->
                                 RMul(a.data[i][k], b.data[k][j])])]]]

hadamard(a, b) ==
    IF a.rows # b.rows \/ a.cols # b.cols THEN MatrixPanic
    ELSE from_data([i \in 1..a.rows |->
                      [j \in 1..a.cols |-> RMul(a.data[i][j], b.data[i][j])]])

(***************************************************************************)
(* ActivationFunction (src/activation/activation.rs).  Modelled variants:  *)
(* Identity, ReLU, Softmax (the others need exp/tanh on arbitrary reals).  *)
(***************************************************************************)
ScalarPanic == <<0, 0>>

\* Mutant: the Softmax arm returns its argument instead of panicking.
functionSoftmaxPassThrough(act, x) ==
    CASE act = "ReLU" -> IF RLess(RZero, x) THEN x ELSE RZero
      [] act = "Identity" -> x
      [] act = "Softmax" -> x

function(act, x) ==
    CASE act = "ReLU" -> IF RLess(RZero, x) THEN x ELSE RZero
      [] act = "Identity" -> x
      [] act = "Softmax" -> ScalarPanic

\* Mutant: the Softmax arm applies the diagonal of the softmax Jacobian.
derivativeJacobian(act, x) ==
    CASE act = "ReLU" -> IF RLess(RZero, x) THEN ROne ELSE RZero
      [] act = "Identity" -> ROne
      [] act = "Softmax" -> RMul(x, RSub(ROne, x))

derivative(act, x) ==
    CASE act = "ReLU" -> IF RLess(RZero, x) THEN ROne ELSE RZero
      [] act = "Identity" -> ROne
      [] act = "Softmax" -> ROne

(***************************************************************************)
(* Layer (src/layers/dense.rs).                                            *)
(***************************************************************************)
\* Layer::new with every initial weight set to w0 (the code samples them).
LayerNew(size, input_size, activation, w0) ==
    [size |-> size,
     neurons |-> zeros(1, size),
     pre_neurons |-> zeros(1, size),
     weights |-> [rows |-> input_size, cols |-> size,
                  data |-> [i \in 1..input_size |-> [j \in 1..size |->
                              IF (i + j) % 2 = 0 THEN w0 ELSE RNeg(w0)]]],
     biases |-> zeros(1, size),
     activator |-> activation]

RECURSIVE RMaxFrom(_, _, _)
RMaxFrom(s, k, best) ==
    IF k > Len(s) THEN best
    ELSE RMaxFrom(s, k + 1, IF best = <<>> THEN s[k] ELSE RMax(best, s[k]))

\* The Softmax arm of feed_from: exp(v - max) / sum of exps.
SoftmaxExps(logits, max_z) ==
    [k \in 1..Len(logits) |-> Exp(RSub(logits[k], max_z))]
SoftmaxOf(exps, sum_exps) == [k \in 1..Len(exps) |-> RDiv(exps[k], sum_exps)]
SoftmaxNormalize(exps) == SoftmaxOf(exps, RSum(exps))
softmax(logits) == SoftmaxNormalize(SoftmaxExps(logits, RMaxFrom(logits, 1, <<>>)))

\* The tail of feed_from: the caches are rewritten, the output returned.
FeedCache(layer, z, a) ==
    [layer |-> [layer EXCEPT !.pre_neurons = z, !.neurons = a],
     out |-> a.data[1]]

\* The activation of feed_from on the pre-activation z.
FeedActivate(layer, z) ==
    FeedCache(layer, z,
              IF layer.activator = "Softmax"
              THEN from_data(<<softmax(z.data[1])>>)
              ELSE map(z, [x \in EntriesOf(z) |-> function(layer.activator, x)]))

\* Returns the layer with its caches rewritten, and the output vector.
feed_from(layer, input) ==
    FeedActivate(layer,
                 add(matmul(from_data(<<input>>), layer.weights), layer.biases))

\* Mutant: the operands of the weight gradient are swapped.
GradientsOfSwapped(inputs, layer_delta) ==
    <<matmul(transpose(layer_delta), inputs), layer_delta>>

GradientsOf(inputs, layer_delta) ==
    <<matmul(transpose(inputs), layer_delta), layer_delta>>

\* Returns <<weights_adjustment, biases_adjustment>>.
compute_gradients(layer, next_layer_delta, inputs) ==
    GradientsOf(inputs,
                hadamard(next_layer_delta,
                         map(layer.pre_neurons,
                                 [x \in EntriesOf(layer.pre_neurons) |->
                                     derivative(layer.activator, x)])))

apply_gradients(layer, weights_grad, biases_grad, lr) ==
    [layer EXCEPT
       !.weights = sub(layer.weights, Scaled(weights_grad, lr)),
       !.biases = sub(layer.biases, Scaled(biases_grad, lr))]

(***************************************************************************)
(* Sgd (src/optim/sgd.rs) and Network (src/network/network.rs).            *)
(***************************************************************************)
SgdStep(optimizer, layer, weights_grad, biases_grad) ==
    apply_gradients(layer, weights_grad, biases_grad, optimizer.learning_rate)

RECURSIVE ForwardFrom(_, _, _)
ForwardFed(layers, i, r) ==
    ForwardFrom([layers EXCEPT ![i] = r.layer], i + 1, r.out)
ForwardFrom(layers, i, current) ==
    IF i > Len(layers) THEN [layers |-> layers, out |-> current]
    ELSE ForwardFed(layers, i, feed_from(layers[i], current))

\* Mutant: the vector returned is the first layer's output.
forwardFirstOutput(layers, input) ==
    [layers |-> ForwardFrom(layers, 1, input).layers,
     out |-> ForwardFrom(layers, 1, input).layers[1].neurons.data[1]]

\* Network::forward: the layers with their caches rewritten, and the output.
forward(layers, input) == ForwardFrom(layers, 1, input)

(***************************************************************************)
(* Losses (src/loss/mse.rs, src/loss/cross_entropy.rs).                    *)
(***************************************************************************)
Min(a, b) == IF a < b THEN a ELSE b

RSquare(x) == RMul(x, x)

MseLoss_loss(predicted, expected) ==
    RDiv(RSum([k \in 1..Min(Len(predicted), Len(expected)) |->
                 RSquare(RSub(predicted[k], expected[k]))]),
         R(Len(predicted)))

MseLoss_derivative(predicted, expected) ==
    [k \in 1..Min(Len(predicted), Len(expected)) |->
        RSub(predicted[k], expected[k])]

\* ln(p + EPS): EPS = 1e-12 only matters at p = 0, where ln(EPS) ~ -28.
LnEps(p) == IF RLess(RZero, p) THEN Ln(p) ELSE R(-28)

CrossEntropyLoss_loss(predicted, expected) ==
    RSum([k \in 1..Min(Len(predicted), Len(expected)) |->
            RMul(RNeg(expected[k]), LnEps(predicted[k]))])

CrossEntropyLoss_derivative(predicted, expected) ==
    [k \in 1..Min(Len(predicted), Len(expected)) |->
        RSub(predicted[k], expected[k])]

RAbs(x) == IF RLess(x, RZero) THEN RNeg(x) ELSE x

\* src/loss/mae.rs
MaeLoss_loss(predicted, expected) ==
    RDiv(RSum([k \in 1..Min(Len(predicted), Len(expected)) |->
                 RAbs(RSub(predicted[k], expected[k]))]),
         R(Len(predicted)))

MaeLoss_derivative(predicted, expected) ==
    [k \in 1..Min(Len(predicted), Len(expected)) |->
        IF RLess(expected[k], predicted[k]) THEN RDiv(ROne, R(Len(predicted)))
        ELSE IF RLess(predicted[k], expected[k])
             THEN RDiv(R(-1), R(Len(predicted)))
             ELSE RZero]

\* src/loss/huber.rs, DELTA = 1.0
HuberTerm(x) ==
    IF RLeq(RAbs(x), ROne) THEN RMul(<<1, 2>>, RMul(x, x))
    ELSE RSub(RAbs(x), <<1, 2>>)

HuberLoss_loss(predicted, expected) ==
    RDiv(RSum([k \in 1..Min(Len(predicted), Len(expected)) |->
                 HuberTerm(RSub(predicted[k], expected[k]))]),
         R(Len(predicted)))

HuberSlope(x) ==
    IF RLeq(RAbs(x), ROne) THEN x
    ELSE IF RLess(RZero, x) THEN ROne ELSE R(-1)

HuberLoss_derivative(predicted, expected) ==
    [k \in 1..Min(Len(predicted), Len(expected)) |->
        HuberSlope(RSub(predicted[k], expected[k]))]

\* src/loss/bce.rs; EPS = 1e-12 is dropped where p and 1 - p are not 0.
BceTerm(p, y) ==
    RNeg(RAdd(RMul(y, LnEps(p)), RMul(RSub(ROne, y), LnEps(RSub(ROne, p)))))

BceLoss_loss(predicted, expected) ==
    RDiv(RSum([k \in 1..Min(Len(predicted), Len(expected)) |->
                 BceTerm(predicted[k], expected[k])]),
         R(Len(predicted)))

BceLoss_derivative(predicted, expected) ==
    [k \in 1..Min(Len(predicted), Len(expected)) |->
        RDiv(RSub(predicted[k], expected[k]),
             RMul(predicted[k], RSub(ROne, predicted[k])))]

(***************************************************************************)
(* Helpers of train_loop (src/train/loop_fn.rs).                           *)
(***************************************************************************)
\* A LossType for which the `match` has no arm: no loss is computed.
Unhandled == <<>>

compute_loss(predicted, expected, loss_type) ==
    CASE loss_type = "Mse" -> MseLoss_loss(predicted, expected)
      [] loss_type = "CrossEntropy" -> CrossEntropyLoss_loss(predicted, expected)
      [] OTHER -> Unhandled

compute_loss_derivative(predicted, expected, loss_type) ==
    CASE loss_type = "Mse" -> MseLoss_derivative(predicted, expected)
      [] loss_type = "CrossEntropy" ->
            CrossEntropyLoss_derivative(predicted, expected)
      [] OTHER -> Unhandled

\* Iterator::max_by keeps the last of several equal maxima; 0-based index.
RECURSIVE ArgmaxFrom(_, _, _)
ArgmaxFrom(v, k, best) ==
    IF k > Len(v) THEN best
    ELSE ArgmaxFrom(v, k + 1,
                    IF best = 0 \/ RLeq(v[best], v[k]) THEN k ELSE best)

argmax(v) == IF Len(v) = 0 THEN 0 ELSE ArgmaxFrom(v, 1, 0) - 1

\* Folds over the samples, forwarding each: the caches move, the sum grows.
RECURSIVE EvalLossFrom(_, _, _, _, _, _)
EvalLossFed(f, inputs, labels, loss_type, k, total) ==
    EvalLossFrom(f.layers, inputs, labels, loss_type, k + 1,
                 RAdd(total, compute_loss(f.out, labels[k], loss_type)))
EvalLossFrom(layers, inputs, labels, loss_type, k, total) ==
    IF k > Min(Len(inputs), Len(labels)) THEN [layers |-> layers, val |-> total]
    ELSE EvalLossFed(forward(layers, inputs[k]), inputs, labels, loss_type, k,
                     total)

EvalLossMean(r, n) == [layers |-> r.layers, val |-> RDiv(r.val, R(n))]

compute_eval_loss(layers, inputs, labels, loss_type) ==
    IF Len(inputs) = 0 THEN [layers |-> layers, val |-> RZero]
    ELSE EvalLossMean(EvalLossFrom(layers, inputs, labels, loss_type, 1, RZero),
                      Len(inputs))

RECURSIVE AccuracyFrom(_, _, _, _, _)
AccuracyFed(f, inputs, labels, k, correct) ==
    AccuracyFrom(f.layers, inputs, labels, k + 1,
                 IF argmax(f.out) = argmax(labels[k])
                 THEN correct + 1 ELSE correct)
AccuracyFrom(layers, inputs, labels, k, correct) ==
    IF k > Min(Len(inputs), Len(labels)) THEN [layers |-> layers, val |-> correct]
    ELSE AccuracyFed(forward(layers, inputs[k]), inputs, labels, k, correct)

AccuracyMean(r, n) == [layers |-> r.layers, val |-> RNorm(r.val, n)]

compute_accuracy(layers, inputs, labels) ==
    IF Len(inputs) = 0 THEN [layers |-> layers, val |-> RZero]
    ELSE AccuracyMean(AccuracyFrom(layers, inputs, labels, 1, 0), Len(inputs))

(***************************************************************************)
(* State.                                                                  *)
(***************************************************************************)
VARIABLES
    entry,            \* the entry point called: "train_loop" or "train_network"
    network,          \* network.layers
    train_inputs, train_labels,
    val_inputs, val_labels,   \* Option: <<>> is None, <<v>> is Some(v)
    optimizer,        \* Sgd
    config,           \* TrainConfig; progress_tx / stop_flag: is it Some
    stop_flag,        \* the AtomicBool behind config.stop_flag
    rx_alive,         \* the Receiver of config.progress_tx still exists
    channel,          \* every EpochStats sent with success, in order
    pc,               \* the position of the thread running the entry point
    epoch,            \* the loop variable of train_loop
    last_train_loss,
    run,              \* the locals of run_one_epoch / train_network
    stats,            \* Option: the EpochStats built last
    result,           \* Option: the value returned
    hist              \* history of the run (observers only)

loopVars == <<entry, network, train_inputs, train_labels, val_inputs, val_labels,
              optimizer, config, stop_flag, rx_alive, channel, pc, epoch,
              last_train_loss, run, stats, result, hist>>

None == <<>>
Some(v) == <<v>>

(***************************************************************************)
(* The inputs the runs are drawn from.                                     *)
(***************************************************************************)
LossTypes == {"Mse", "CrossEntropy"}

\* enum LossType
AllLossTypes == {"Mse", "CrossEntropy", "BinaryCrossEntropy", "Mae", "Huber"}

\* Sample i (1-based position in the slice) of the training set.
TrainInputAt(i) == <<R(CASE i % 3 = 1 -> 1 [] i % 3 = 2 -> -1 [] OTHER -> 0)>>
TrainLabelAt(i, loss_type) ==
    IF loss_type = "CrossEntropy"
    THEN (IF i % 2 = 1 THEN <<ROne, RZero>> ELSE <<RZero, ROne>>)
    ELSE <<R(2 - i)>>

ValInputs == <<<<R(1)>>, <<R(0)>>>>
ValLabels(loss_type) ==
    IF loss_type = "CrossEntropy" THEN <<<<RZero, ROne>>, <<ROne, RZero>>>>
    ELSE <<<<R(0)>>, <<R(1)>>>>

\* A one-layer network for the loss: 1 -> 1 Identity, or 1 -> 2 Softmax.
NetworkFor(loss_type) ==
    IF loss_type = "CrossEntropy"
    THEN <<LayerNew(2, 1, "Softmax", ROne)>>
    ELSE <<LayerNew(1, 1, "Identity", ROne)>>

RunIdle ==
    [indices |-> <<>>, batch_start |-> 0, batch_end |-> 0, pos |-> 0,
     total_loss |-> RZero, acc_grads |-> <<>>,
     input |-> <<>>, expected |-> <<>>, output |-> <<>>, delta |-> <<>>,
     train_loss |-> RZero]

\* The trainable parameters of a network: per layer, its weights and biases.
Params(layers) ==
    [i \in 1..Len(layers) |-> <<layers[i].weights, layers[i].biases>>]

HistInit(layers) ==
    [network0 |-> layers, batch_params |-> <<>>,
     started |-> 0, completed |-> 0,
     forwards |-> 0, steps |-> 0, flag_loads |-> 0, sends |-> 0,
     processed |-> <<>>, batches |-> <<>>, losses |-> <<>>, in_batch |-> 0,
     last_losses |-> <<>>,
     stop_at |-> None, fail_at |-> None, exit |-> ""]

(***************************************************************************)
(* The studio (src/studio): the shared StudioState, the training threads   *)
(* spawned by POST /train/start and the GET /train/events handlers.        *)
(***************************************************************************)
VARIABLES
    st,               \* the StudioState behind Arc<Mutex<..>>
    workers,          \* per run: the thread spawned by handle_start
    stop_flags,       \* per run: the AtomicBool created by handle_start
    queues,           \* per run: the EpochStats sent and not yet received
    sse,              \* per connection: the thread running train_sse::handle
    runs              \* how many training threads were spawned so far

studioVars == <<st, workers, stop_flags, queues, sse, runs>>

RunIds == 1..MaxRuns
SseIds == 1..MaxSse

\* TrainingStatus. `run` names the run whose stop_flag and epoch_rx a Running
\* value holds, and the run whose thread wrote a Done or Failed value.
Idle ==
    [kind |-> "Idle", run |-> 0, total_epochs |-> 0, was_stopped |-> FALSE]
Running(r, total_epochs) ==
    [kind |-> "Running", run |-> r, total_epochs |-> total_epochs,
     was_stopped |-> FALSE]
Done(r, was_stopped) ==
    [kind |-> "Done", run |-> r, total_epochs |-> 0,
     was_stopped |-> was_stopped]
Failed(r) ==
    [kind |-> "Failed", run |-> r, total_epochs |-> 0, was_stopped |-> FALSE]

\* StudioState::new(); the flash message is page decoration, left out.
StudioStateNew ==
    [spec |-> None, hyperparams |-> None, dataset |-> None,
     training |-> Idle, epoch_history |-> <<>>, trained_network |-> None]

\* A run whose thread does not exist yet.
WorkerNone ==
    [pc |-> "none", epochs |-> 0, epoch |-> 0, sent |-> 0,
     was_stopped |-> FALSE]

\* A connection that has not been opened yet.
SseNone == [pc |-> "new", rx |-> 0, stats |-> None, saw |-> None]

\* main(): the state is created, no request has been served.
\* A connection whose handler has returned.
SseClosed == [pc |-> "closed", rx |-> 0, stats |-> None, saw |-> None]

(***************************************************************************)
(* Direct use of the library: one call of a Matrix, ActivationFunction or   *)
(* loss function, or a network built from an architecture and then driven  *)
(* through forward passes, gradient computations and optimizer steps.      *)
(***************************************************************************)
VARIABLES
    call,             \* the library call made: its name, arguments, result
    net               \* the network under direct use

libVars == <<call, net>>

CallNone == [op |-> "none", args |-> <<>>, out |-> <<>>]
NetNone ==
    [layers |-> <<>>, arch |-> <<>>, grads |-> None, nops |-> 0,
     op |-> "none", input |-> <<>>, out |-> <<>>]

LibInit == call = CallNone /\ net = NetNone

\* Nothing was called and no network was built.
LibIdle == call.op = "none" /\ net = NetNone

StudioInit ==
    /\ st = StudioStateNew
    /\ workers = [r \in RunIds |-> WorkerNone]
    /\ stop_flags = [r \in RunIds |-> FALSE]
    /\ queues = [r \in RunIds |-> <<>>]
    /\ sse = [h \in SseIds |-> SseNone]
    /\ runs = 0

Init ==
    /\ entry \in {"train_loop", "train_network"}
    /\ \E loss_type \in LossTypes, n \in 0..MaxSamples, m \in 0..MaxSamples,
          epochs \in 0..MaxEpochs, batch_size \in 0..MaxBatch,
          tx \in BOOLEAN, flag \in BOOLEAN, vi \in BOOLEAN, vl \in BOOLEAN :
          \* train_network takes only the batch size and always uses MseLoss
          /\ entry = "train_network" =>
                /\ loss_type = "Mse" /\ epochs = 1
                /\ ~tx /\ ~flag /\ ~vi /\ ~vl
          \* validation inputs without labels (or labels without inputs) are
          \* tried on runs of at most one epoch
          /\ vi # vl => epochs <= 1
          /\ network = NetworkFor(loss_type)
          /\ train_inputs = [i \in 1..n |-> TrainInputAt(i)]
          /\ train_labels = [i \in 1..m |-> TrainLabelAt(i, loss_type)]
          /\ val_inputs = IF vi THEN Some(ValInputs) ELSE None
          /\ val_labels = IF vl THEN Some(ValLabels(loss_type)) ELSE None
          /\ config = [epochs |-> epochs, batch_size |-> batch_size,
                       loss_type |-> loss_type,
                       progress_tx |-> tx, stop_flag |-> flag]
    /\ optimizer = [learning_rate |-> ROne]
    /\ stop_flag = FALSE
    /\ rx_alive = config.progress_tx
    /\ channel = <<>>
    /\ pc = "entry"
    /\ epoch = 0
    /\ last_train_loss = RZero
    /\ run = RunIdle
    /\ stats = None
    /\ result = None
    /\ hist = HistInit(network)
    /\ StudioInit
    /\ LibInit

(***************************************************************************)
(* train_loop (src/train/loop_fn.rs) and train_network                     *)
(* (src/train/trainer.rs), one action per step of the thread running them. *)
(***************************************************************************)
Terminated == pc \in {"returned", "panicked"}

\* Mutant: the batch size is not asserted.
PreconditionsNoBatch(inputs, labels, batch_size) ==
    /\ Len(inputs) # 0
    /\ Len(inputs) = Len(labels)

\* The three assertions at the head of train_loop and of train_network.
Preconditions(inputs, labels, batch_size) ==
    /\ Len(inputs) # 0
    /\ Len(inputs) = Len(labels)
    /\ batch_size > 0

Enter ==
    /\ UNCHANGED <<studioVars, libVars>>
    /\ pc = "entry"
    /\ IF ~Preconditions(train_inputs, train_labels, config.batch_size)
       THEN /\ pc' = "panicked"
            /\ UNCHANGED <<epoch, last_train_loss>>
       ELSE IF entry = "train_loop"
       THEN /\ pc' = "top"
            /\ epoch' = 1
            /\ last_train_loss' = RZero
       ELSE /\ pc' = "shuffle"
            /\ UNCHANGED <<epoch, last_train_loss>>
    /\ UNCHANGED <<entry, network, train_inputs, train_labels, val_inputs,
                   val_labels, optimizer, config, stop_flag, rx_alive, channel,
                   run, stats, result, hist>>

\* Mutant: the flag is never honoured.
StopIgnored == FALSE

\* if let Some(ref flag) = config.stop_flag { if flag.load(Relaxed) { break } }
StopRequested == config.stop_flag /\ stop_flag

FlagLoads == IF config.stop_flag THEN 1 ELSE 0

\* Mutant: the range runs to config.epochs + 1.
EpochsExhaustedLate == epoch > config.epochs + 1

\* `for epoch in 1..=config.epochs` has no element left.
EpochsExhausted == epoch > config.epochs

\* The head of `for epoch in 1..=config.epochs` and the check at its top.
TopCheck ==
    /\ UNCHANGED <<studioVars, libVars>>
    /\ pc = "top"
    /\ IF EpochsExhausted
       THEN /\ pc' = "return"
            /\ hist' = [hist EXCEPT !.exit = "epochs"]
       ELSE IF StopRequested
       THEN /\ pc' = "return"
            /\ hist' = [hist EXCEPT !.exit = "stop_top",
                                    !.flag_loads = @ + FlagLoads]
       ELSE /\ pc' = "shuffle"
            /\ hist' = [hist EXCEPT !.started = @ + 1,
                                    !.flag_loads = @ + FlagLoads]
    /\ UNCHANGED <<entry, network, train_inputs, train_labels, val_inputs,
                   val_labels, optimizer, config, stop_flag, rx_alive, channel,
                   epoch, last_train_loss, run, stats, result>>

\* Mutant: indices drawn with replacement.
ShufflesWithRepeats(n) == [1..n -> 0..(n - 1)]

\* indices.shuffle(..): every order of 0..n-1 (0-based, as in the code).
Shuffles(n) ==
    {f \in [1..n -> 0..(n - 1)] : \A i, j \in 1..n : f[i] = f[j] => i = j}

Shuffle ==
    /\ UNCHANGED <<studioVars, libVars>>
    /\ pc = "shuffle"
    /\ \E indices \in Shuffles(Len(train_inputs)) :
          run' = [RunIdle EXCEPT !.indices = indices]
    /\ hist' = [hist EXCEPT !.processed = <<>>, !.batches = <<>>,
                            !.losses = <<>>, !.in_batch = 0,
                            !.started = IF entry = "train_network" THEN 1 ELSE @]
    /\ pc' = "batch"
    /\ UNCHANGED <<entry, network, train_inputs, train_labels, val_inputs,
                   val_labels, optimizer, config, stop_flag, rx_alive, channel,
                   epoch, last_train_loss, stats, result>>

\* Mutant: the accumulators start from a left-over value.
StaleGrads(layers) ==
    [i \in 1..Len(layers) |->
        <<map(layers[i].weights, [x \in EntriesOf(layers[i].weights) |-> ROne]),
          map(layers[i].biases, [x \in EntriesOf(layers[i].biases) |-> ROne])>>]

\* "Zero-initialize accumulated gradient storage": per layer, zeros of the
\* shapes of its weights and biases.
ZeroGrads(layers) ==
    [i \in 1..Len(layers) |->
        <<zeros(layers[i].weights.rows, layers[i].weights.cols),
          zeros(layers[i].biases.rows, layers[i].biases.cols)>>]

\* One step of `for batch_start in (0..n).step_by(batch_size)`: the batch's
\* bounds and its zeroed accumulators.
BatchStart ==
    /\ UNCHANGED <<studioVars, libVars>>
    /\ pc = "batch"
    /\ run.batch_start < Len(train_inputs)
    /\ run' = [run EXCEPT
                 !.batch_end = Min(run.batch_start + config.batch_size,
                                   Len(train_inputs)),
                 !.pos = run.batch_start,
                 !.acc_grads = ZeroGrads(network)]
    /\ hist' = [hist EXCEPT !.in_batch = 0, !.batch_params = Params(network)]
    /\ pc' = "forward"
    /\ UNCHANGED <<entry, network, train_inputs, train_labels, val_inputs,
                   val_labels, optimizer, config, stop_flag, rx_alive, channel,
                   epoch, last_train_loss, stats, result>>

\* train_network calls MseLoss directly; train_loop dispatches on loss_type.
SampleLoss(output, expected) ==
    IF entry = "train_network" THEN MseLoss_loss(output, expected)
    ELSE compute_loss(output, expected, config.loss_type)

SampleError(output, expected) ==
    IF entry = "train_network" THEN MseLoss_derivative(output, expected)
    ELSE compute_loss_derivative(output, expected, config.loss_type)

\* The sample at position pos of the shuffled order: forward, loss, delta.
SampleForwarded(idx, input, expected, f, loss) ==
    /\ network' = f.layers
    /\ run' = [run EXCEPT
                 !.input = input, !.expected = expected, !.output = f.out,
                 !.total_loss = RAdd(@, loss),
                 !.delta = from_data(<<SampleError(f.out, expected)>>)]
    /\ hist' = [hist EXCEPT
                  !.forwards = @ + 1, !.in_batch = @ + 1,
                  !.losses = Append(@, loss),
                  !.processed = Append(@, [idx |-> idx, input |-> input,
                                            expected |-> expected])]

SampleForwardOf(idx, input, expected, f) ==
    SampleForwarded(idx, input, expected, f, SampleLoss(f.out, expected))

\* Mutant: the forward pass runs on the first sample of the set.
SampleForwardAtFirst(idx) ==
    SampleForwardOf(idx, train_inputs[idx + 1], train_labels[idx + 1],
                    forward(network, train_inputs[1]))

SampleForwardAt(idx) ==
    SampleForwardOf(idx, train_inputs[idx + 1], train_labels[idx + 1],
                    forward(network, train_inputs[idx + 1]))

SampleForward ==
    /\ UNCHANGED <<studioVars, libVars>>
    /\ pc = "forward"
    /\ SampleForwardAt(run.indices[run.pos + 1])
    /\ pc' = "backward"
    /\ UNCHANGED <<entry, train_inputs, train_labels, val_inputs, val_labels,
                   optimizer, config, stop_flag, rx_alive, channel, epoch,
                   last_train_loss, stats, result>>

\* `for i in (0..network.layers.len()).rev()`, from layer i (1-based) down.
RECURSIVE BackwardFrom(_, _, _, _, _)
BackwardGrads(layers, i, delta, input, acc_grads, g) ==
    BackwardFrom(layers, i - 1,
                 IF i > 1 THEN matmul(g[2], transpose(layers[i].weights))
                 ELSE delta,
                 input,
                 [acc_grads EXCEPT ![i] = <<add(acc_grads[i][1], g[1]),
                                            add(acc_grads[i][2], g[2])>>])
BackwardFrom(layers, i, delta, input, acc_grads) ==
    IF i = 0 THEN acc_grads
    ELSE BackwardGrads(layers, i, delta, input, acc_grads,
                       compute_gradients(layers[i], delta,
                                         IF i = 1 THEN from_data(<<input>>)
                                         ELSE layers[i - 1].neurons))

\* Mutant: the averaged step is taken after every sample.
AfterSampleApplies(pos, batch_end) == "apply"

\* `for &idx in &indices[batch_start..batch_end]`: the next sample of the
\* batch, or "Average and apply" after its last one.
AfterSample(pos, batch_end) == IF pos + 1 < batch_end THEN "forward" ELSE "apply"

SampleBackward ==
    /\ UNCHANGED <<studioVars, libVars>>
    /\ pc = "backward"
    /\ run' = [run EXCEPT
                 !.acc_grads = BackwardFrom(network, Len(network), run.delta,
                                            run.input, run.acc_grads),
                 !.pos = @ + 1]
    /\ pc' = AfterSample(run.pos, run.batch_end)
    /\ UNCHANGED <<entry, network, train_inputs, train_labels, val_inputs,
                   val_labels, optimizer, config, stop_flag, rx_alive, channel,
                   epoch, last_train_loss, stats, result, hist>>

\* Mutant: the nominal batch size is the divisor.
InvBatchNominal(batch_start, batch_end, batch_size) == RDiv(ROne, R(batch_size))

\* actual_batch_size = batch_end - batch_start; inv_batch = 1.0 / that.
InvBatch(batch_start, batch_end, batch_size) ==
    RDiv(ROne, R(batch_end - batch_start))

\* "Average and apply": one optimizer.step per layer.
ApplyAveraged(layers, acc_grads, inv_batch) ==
    [i \in 1..Len(layers) |->
        SgdStep(optimizer, layers[i],
                Scaled(acc_grads[i][1], inv_batch),
                Scaled(acc_grads[i][2], inv_batch))]

BatchApplied(inv_batch) ==
    /\ network' = ApplyAveraged(network, run.acc_grads, inv_batch)
    /\ hist' = [hist EXCEPT
                  !.steps = @ + 1,
                  !.batches = Append(@, [start |-> run.batch_start,
                                         len |-> hist.in_batch,
                                         inv_batch |-> inv_batch])]

BatchApply ==
    /\ UNCHANGED <<studioVars, libVars>>
    /\ pc = "apply"
    /\ BatchApplied(InvBatch(run.batch_start, run.batch_end, config.batch_size))
    /\ run' = [run EXCEPT !.batch_start = @ + config.batch_size]
    /\ pc' = "batch"
    /\ UNCHANGED <<entry, train_inputs, train_labels, val_inputs, val_labels,
                   optimizer, config, stop_flag, rx_alive, channel, epoch,
                   last_train_loss, stats, result>>

\* Mutant: the sum is returned undivided.
EpochSum(total_loss, n) == total_loss

\* total_loss / n as f64
EpochMean(total_loss, n) == RDiv(total_loss, R(n))

\* The batch loop is over: run_one_epoch / train_network return the mean.
EpochEnded(train_loss) ==
    /\ run' = [run EXCEPT !.train_loss = train_loss]
    /\ IF entry = "train_loop"
       THEN /\ last_train_loss' = train_loss
            /\ pc' = "eval"
            /\ UNCHANGED result
       ELSE /\ result' = Some(train_loss)
            /\ pc' = "returned"
            /\ UNCHANGED last_train_loss

EpochEnd ==
    /\ UNCHANGED <<studioVars, libVars>>
    /\ pc = "batch"
    /\ run.batch_start >= Len(train_inputs)
    /\ EpochEnded(EpochMean(run.total_loss, Len(train_inputs)))
    /\ hist' = [hist EXCEPT !.completed = @ + 1, !.last_losses = hist.losses,
                            !.exit = IF entry = "train_loop" THEN @
                                     ELSE "epochs"]
    /\ UNCHANGED <<entry, network, train_inputs, train_labels, val_inputs,
                   val_labels, optimizer, config, stop_flag, rx_alive, channel,
                   epoch, stats>>

\* Mutant: the epoch number is 0-based.
BuildStatsZeroBased(ep, total_epochs, train_loss, val_loss, train_accuracy, val_accuracy) ==
    [epoch |-> ep - 1, total_epochs |-> total_epochs, train_loss |-> train_loss,
     val_loss |-> val_loss, train_accuracy |-> train_accuracy,
     val_accuracy |-> val_accuracy]

\* EpochStats { epoch, total_epochs, train_loss, val_loss, train_accuracy,
\* val_accuracy, elapsed_ms }; elapsed_ms is wall-clock time, left out.
BuildStats(ep, total_epochs, train_loss, val_loss, train_accuracy, val_accuracy) ==
    [epoch |-> ep, total_epochs |-> total_epochs, train_loss |-> train_loss,
     val_loss |-> val_loss, train_accuracy |-> train_accuracy,
     val_accuracy |-> val_accuracy]

\* Accuracy (CrossEntropy only), validation, and the EpochStats of the epoch.
IsCrossEntropy == config.loss_type = "CrossEntropy"
HasValidation == val_inputs # None /\ val_labels # None

\* The forward passes an evaluation runs.
EvalForwards ==
    (IF IsCrossEntropy THEN Len(train_inputs) ELSE 0)
    + (IF HasValidation THEN Len(val_inputs[1]) ELSE 0)
    + (IF HasValidation /\ IsCrossEntropy THEN Len(val_inputs[1]) ELSE 0)

\* Mutant: the training accuracy is reported for every loss type.
TrainAccuracyAlways(acc) == Some(acc.val)

\* let train_accuracy = if config.loss_type == LossType::CrossEntropy {..}
TrainAccuracyOf(acc) == IF IsCrossEntropy THEN Some(acc.val) ELSE None

\* Mutant: the evaluation ends with a step along the last batch's gradients.
EvaluatedTrains(acc, vl, va) ==
    /\ network' = ApplyAveraged(va.layers, run.acc_grads, ROne)
    /\ stats' = Some(BuildStats(epoch, config.epochs, run.train_loss,
                        IF HasValidation THEN Some(vl.val) ELSE None,
                        TrainAccuracyOf(acc),
                        IF HasValidation /\ IsCrossEntropy THEN Some(va.val)
                        ELSE None))
    /\ hist' = [hist EXCEPT !.forwards = @ + EvalForwards]

\* acc, vl, va: the network after, and the value of, the training accuracy,
\* the validation loss and the validation accuracy.
Evaluated(acc, vl, va) ==
    /\ network' = va.layers
    /\ stats' = Some(BuildStats(epoch, config.epochs, run.train_loss,
                        IF HasValidation THEN Some(vl.val) ELSE None,
                        TrainAccuracyOf(acc),
                        IF HasValidation /\ IsCrossEntropy THEN Some(va.val)
                        ELSE None))
    /\ hist' = [hist EXCEPT !.forwards = @ + EvalForwards]

EvaluateValAccuracy(acc, vl) ==
    Evaluated(acc, vl,
              IF HasValidation /\ IsCrossEntropy
              THEN compute_accuracy(vl.layers, val_inputs[1], val_labels[1])
              ELSE [layers |-> vl.layers, val |-> RZero])

EvaluateValidation(acc) ==
    EvaluateValAccuracy(acc,
              IF HasValidation
              THEN compute_eval_loss(acc.layers, val_inputs[1], val_labels[1],
                                     config.loss_type)
              ELSE [layers |-> acc.layers, val |-> RZero])

Evaluate ==
    /\ UNCHANGED <<studioVars, libVars>>
    /\ pc = "eval"
    /\ EvaluateValidation(
          IF IsCrossEntropy
          THEN compute_accuracy(network, train_inputs, train_labels)
          ELSE [layers |-> network, val |-> RZero])
    /\ pc' = "emit"
    /\ UNCHANGED <<entry, train_inputs, train_labels, val_inputs, val_labels,
                   optimizer, config, stop_flag, rx_alive, channel, epoch,
                   last_train_loss, run, result>>

\* Mutant: a failed send is ignored.
AfterSendIgnored(sent_ok) == "bottom"

\* if tx.send(stats).is_err() { break }
AfterSend(sent_ok) == IF sent_ok THEN "bottom" ELSE "return"

Emit ==
    /\ UNCHANGED <<studioVars, libVars>>
    /\ pc = "emit"
    /\ IF config.progress_tx
       THEN /\ channel' = IF rx_alive THEN Append(channel, stats[1]) ELSE channel
            /\ pc' = AfterSend(rx_alive)
            /\ hist' = [hist EXCEPT
                          !.sends = @ + 1,
                          !.exit = IF rx_alive THEN @ ELSE "sink",
                          !.fail_at = IF rx_alive \/ @ # None THEN @
                                      ELSE Some([forwards |-> hist.forwards,
                                                 started |-> hist.started,
                                                 steps |-> hist.steps,
                                                 sends |-> hist.sends + 1])]
       ELSE /\ pc' = "bottom"
            /\ UNCHANGED <<channel, hist>>
    /\ UNCHANGED <<entry, network, train_inputs, train_labels, val_inputs,
                   val_labels, optimizer, config, stop_flag, rx_alive, epoch,
                   last_train_loss, run, stats, result>>

\* The check after the emission, then the loop's increment.
BottomCheck ==
    /\ UNCHANGED <<studioVars, libVars>>
    /\ pc = "bottom"
    /\ IF StopRequested
       THEN /\ pc' = "return"
            /\ hist' = [hist EXCEPT !.exit = "stop_bottom",
                                    !.flag_loads = @ + FlagLoads]
            /\ UNCHANGED epoch
       ELSE /\ pc' = "top"
            /\ epoch' = epoch + 1
            /\ hist' = [hist EXCEPT !.flag_loads = @ + FlagLoads]
    /\ UNCHANGED <<entry, network, train_inputs, train_labels, val_inputs,
                   val_labels, optimizer, config, stop_flag, rx_alive, channel,
                   last_train_loss, run, stats, result>>

\* The tail expression of train_loop: last_train_loss.
Return ==
    /\ UNCHANGED <<studioVars, libVars>>
    /\ pc = "return"
    /\ result' = Some(last_train_loss)
    /\ pc' = "returned"
    /\ UNCHANGED <<entry, network, train_inputs, train_labels, val_inputs,
                   val_labels, optimizer, config, stop_flag, rx_alive, channel,
                   epoch, last_train_loss, run, stats, hist>>

\* Another thread stores true into the flag, at any moment of the run.
SetStop ==
    /\ UNCHANGED <<studioVars, libVars>>
    /\ config.stop_flag
    /\ ~stop_flag
    /\ ~Terminated
    /\ stop_flag' = TRUE
    /\ hist' = [hist EXCEPT
                  !.stop_at = Some([started |-> hist.started,
                                    completed |-> hist.completed,
                                    sent |-> Len(channel)])]
    /\ UNCHANGED <<entry, network, train_inputs, train_labels, val_inputs,
                   val_labels, optimizer, config, rx_alive, channel, pc, epoch,
                   last_train_loss, run, stats, result>>

\* The holder of the Receiver drops it, at any moment of the run.
DropReceiver ==
    /\ UNCHANGED <<studioVars, libVars>>
    /\ config.progress_tx
    /\ rx_alive
    /\ ~Terminated
    /\ rx_alive' = FALSE
    /\ UNCHANGED <<entry, network, train_inputs, train_labels, val_inputs,
                   val_labels, optimizer, config, stop_flag, channel, pc, epoch,
                   last_train_loss, run, stats, result, hist>>

vars == <<loopVars, studioVars, libVars>>

Next ==
    \/ Enter
    \/ TopCheck
    \/ Shuffle
    \/ BatchStart
    \/ SampleForward
    \/ SampleBackward
    \/ BatchApply
    \/ EpochEnd
    \/ Evaluate
    \/ Emit
    \/ BottomCheck
    \/ Return
    \/ SetStop
    \/ DropReceiver

Spec == Init /\ [][Next]_vars

\* The steps of the thread that called train_loop or train_network; the
\* other two actions of Next are taken by other threads.
LoopStep ==
    \/ Enter
    \/ TopCheck
    \/ Shuffle
    \/ BatchStart
    \/ SampleForward
    \/ SampleBackward
    \/ BatchApply
    \/ EpochEnd
    \/ Evaluate
    \/ Emit
    \/ BottomCheck
    \/ Return

\* The statements the calling thread can be at.
Pcs ==
    {"entry", "top", "shuffle", "batch", "forward", "backward", "apply",
     "eval", "emit", "bottom", "return", "returned", "panicked"}

\* Every action of LoopStep moves pc and no other action does, so the steps
\* of the calling thread are the steps that move pc.
ThreadStep == ~Terminated /\ pc' \in Pcs \ {pc}

\* The calling thread is a running thread: it is not suspended for ever
\* while the call has a next statement to execute.
SpecRun == Init /\ [][Next]_vars /\ WF_pc(ThreadStep)

(***************************************************************************)
(* The studio's request handlers. Each holds the state lock for the whole  *)
(* of what it does to the state, so each is one step.                      *)
(***************************************************************************)
\* The loop variables are not used by the studio specification.
LoopParked ==
    /\ entry = "train_loop"
    /\ network = <<>>
    /\ train_inputs = <<>> /\ train_labels = <<>>
    /\ val_inputs = None /\ val_labels = None
    /\ optimizer = [learning_rate |-> ROne]
    /\ config = [epochs |-> 0, batch_size |-> 0, loss_type |-> "Mse",
                 progress_tx |-> FALSE, stop_flag |-> FALSE]
    /\ stop_flag = FALSE
    /\ rx_alive = FALSE
    /\ channel = <<>>
    /\ pc = "returned"
    /\ epoch = 0
    /\ last_train_loss = RZero
    /\ run = RunIdle
    /\ stats = None
    /\ result = None
    /\ hist = HistInit(<<>>)

InitStudio == LoopParked /\ StudioInit /\ LibInit

IsRunning == st.training.kind = "Running"

\* The Receiver of run r lives in an Arc held by the Running status of that
\* run and by every events handler that cloned it; training and conns are
\* the status and the handlers looked at.
ReceiverHeld(r, training, conns) ==
    \/ training.kind = "Running" /\ training.run = r
    \/ \E h \in SseIds :
          /\ conns[h].pc \in {"recv", "receiving", "push", "final"}
          /\ conns[h].rx = r

ReceiverAlive(r) == ReceiverHeld(r, st.training, sse)

\* Dropping the last Arc drops the Receiver and what was queued in it.
Dropped(qs, training, conns) ==
    [r \in RunIds |-> IF ReceiverHeld(r, training, conns) THEN qs[r] ELSE <<>>]

\* The threads inside state.lock(): a request handler and an events handler
\* take the lock and leave it within one step; the training thread keeps it
\* from its lock() to the end of its closure.
StateLockHeldBy == {r \in RunIds : workers[r].pc = "locked"}

StateLockFree == StateLockHeldBy = {}

\* The events handlers inside rx_arc.lock() of run r's Receiver: the guard
\* lives for the length of recv_timeout.
RxLockHeldBy(r) == {h \in SseIds : sse[h].pc = "receiving" /\ sse[h].rx = r}

RxLockFree(r) == RxLockHeldBy(r) = {}

\* The checks of the form fields that carry numbers into the state:
\* batch size and epochs parse as positive integers.
FormAccepted(bs, ep) == bs > 0 /\ ep > 0

\* The writes of POST /architect/save under the lock.
ArchitectSaved(bs, ep) ==
    [st EXCEPT !.spec = Some("spec"),
               !.hyperparams = Some([batch_size |-> bs, epochs |-> ep]),
               !.dataset = None,
               !.epoch_history = <<>>,
               !.trained_network = None,
               !.training = Idle]

\* POST /architect/save: a rejected form shows the error page.
handle_post ==
    /\ StateLockFree
    /\ \E bs \in 0..1, ep \in 0..MaxEpochs :
          st' = IF FormAccepted(bs, ep) THEN ArchitectSaved(bs, ep) ELSE st
    /\ queues' = Dropped(queues, st'.training, sse)
    /\ UNCHANGED <<workers, stop_flags, sse, runs>>
    /\ UNCHANGED <<loopVars, libVars>>

\* POST /dataset/upload (handle_builtin ends in the same write): a file that
\* does not parse, or does not fit the saved architecture, changes nothing.
handle_upload ==
    /\ StateLockFree
    /\ \E parsed \in BOOLEAN :
          st' = IF parsed THEN [st EXCEPT !.dataset = Some("dataset")] ELSE st
    /\ UNCHANGED <<workers, stop_flags, queues, sse, runs>>
    /\ UNCHANGED <<loopVars, libVars>>

\* The thread handle_start spawns; it enters train_loop at once.
WorkerSpawned(epochs) ==
    [pc |-> "top", epochs |-> epochs, epoch |-> 0, sent |-> 0,
     was_stopped |-> FALSE]

\* The guards of POST /train/start.
StartRefused ==
    \/ st.spec = None \/ st.hyperparams = None \/ st.dataset = None
    \/ IsRunning

\* POST /train/start.
handle_start ==
    /\ runs < MaxRuns
    /\ StateLockFree
    /\ IF StartRefused
       THEN UNCHANGED <<st, workers, stop_flags, queues, runs>>
       ELSE /\ runs' = runs + 1
            /\ st' = [st EXCEPT
                        !.training = Running(runs + 1, st.hyperparams[1].epochs),
                        !.epoch_history = <<>>,
                        !.trained_network = None]
            /\ stop_flags' = [stop_flags EXCEPT ![runs + 1] = FALSE]
            /\ queues' = [queues EXCEPT ![runs + 1] = <<>>]
            /\ workers' = [workers EXCEPT ![runs + 1] =
                              WorkerSpawned(st.hyperparams[1].epochs)]
    /\ UNCHANGED sse
    /\ UNCHANGED <<loopVars, libVars>>

\* POST /train/stop.
handle_stop ==
    /\ StateLockFree
    /\ IF IsRunning
       THEN stop_flags' = [stop_flags EXCEPT ![st.training.run] = TRUE]
       ELSE UNCHANGED stop_flags
    /\ UNCHANGED <<st, workers, queues, sse, runs>>
    /\ UNCHANGED <<loopVars, libVars>>

(***************************************************************************)
(* The training thread: train_loop as the studio sees it (flag loads,      *)
(* sends), then the closing steps of the closure.                          *)
(***************************************************************************)
\* The Sender of run r lives in the thread's TrainConfig until the closure ends.
SenderAlive(r) == workers[r].pc # "done"

WorkerAlive(r) == workers[r].pc \notin {"none", "done"}

\* The head of an epoch: the range 0..epochs is exhausted, or the flag is set
\* (the load after an emission and the load at the head of the next epoch
\* have nothing between them: one step), or the epoch runs (its samples,
\* batches and evaluation are the thread's own).
WorkerTop(r) ==
    /\ workers[r].pc = "top"
    /\ workers' = [workers EXCEPT ![r] =
          IF workers[r].epoch = workers[r].epochs \/ stop_flags[r]
          THEN [@ EXCEPT !.pc = "after"]
          ELSE [@ EXCEPT !.pc = "emit", !.epoch = @ + 1]]
    /\ UNCHANGED <<st, stop_flags, queues, sse, runs>>
    /\ UNCHANGED <<loopVars, libVars>>

\* tx.send(stats): fails when the Receiver is gone, and the loop breaks.
WorkerEmit(r) ==
    /\ workers[r].pc = "emit"
    /\ IF ReceiverAlive(r)
       THEN /\ queues' = [queues EXCEPT ![r] =
                  Append(@, [run |-> r, epoch |-> workers[r].epoch])]
            /\ workers' = [workers EXCEPT ![r].pc = "top", ![r].sent = @ + 1]
       ELSE /\ workers' = [workers EXCEPT ![r].pc = "after"]
            /\ UNCHANGED queues
    /\ UNCHANGED <<st, stop_flags, sse, runs>>
    /\ UNCHANGED <<loopVars, libVars>>

\* let was_stopped = stop_flag.load(Ordering::Relaxed);
WorkerLoadStopped(r) ==
    /\ workers[r].pc = "after"
    /\ workers' = [workers EXCEPT ![r].pc = "finish",
                                  ![r].was_stopped = stop_flags[r]]
    /\ UNCHANGED <<st, stop_flags, queues, sse, runs>>
    /\ UNCHANGED <<loopVars, libVars>>

\* What is left in the Receiver of the status that is current.
Remaining == IF IsRunning THEN queues[st.training.run] ELSE <<>>

\* The network the thread of run r hands over.
TrainedBy(r) == [run |-> r]

\* let mut st = state_clone.lock().unwrap(), held to the end of the closure.
WorkerLock(r) ==
    /\ workers[r].pc = "finish"
    /\ StateLockFree
    /\ workers' = [workers EXCEPT ![r].pc = "locked"]
    /\ UNCHANGED <<st, stop_flags, queues, sse, runs>>
    /\ UNCHANGED <<loopVars, libVars>>

\* Holding the state lock: lock the Receiver of the status that is current,
\* drain it into epoch_history, set Done or Failed, hand the network over.
WorkerFinish(r) ==
    /\ workers[r].pc = "locked"
    /\ IsRunning => RxLockFree(st.training.run)
    /\ \E save_ok \in BOOLEAN :
          st' = [st EXCEPT
                   !.epoch_history = @ \o Remaining,
                   !.training = IF save_ok THEN Done(r, workers[r].was_stopped)
                                ELSE Failed(r),
                   !.trained_network = Some(TrainedBy(r))]
    /\ queues' = Dropped(IF IsRunning
                          THEN [queues EXCEPT ![st.training.run] = <<>>]
                          ELSE queues, st'.training, sse)
    \* the closure ends: its clone of the flag is gone; the record keeps
    \* what the thread did (epochs run, stats sent, the flag value it loaded)
    /\ workers' = [workers EXCEPT ![r].pc = "done"]
    /\ stop_flags' = [stop_flags EXCEPT ![r] = FALSE]
    /\ UNCHANGED <<sse, runs>>
    /\ UNCHANGED <<loopVars, libVars>>

(***************************************************************************)
(* GET /train/events (train_sse::handle), one thread per connection. What  *)
(* the handler writes to its client is not part of the state; a write to a *)
(* client that went away ends the handler.                                 *)
(***************************************************************************)
\* Clone the Receiver out of a Running status and replay epoch_history, or
\* report the status that is not Running and return.
SseExtract(h) ==
    /\ sse[h].pc = "new"
    /\ StateLockFree
    /\ sse' = [sse EXCEPT ![h] =
          IF IsRunning THEN [@ EXCEPT !.pc = "recv", !.rx = st.training.run]
          ELSE SseClosed]
    /\ UNCHANGED <<st, workers, stop_flags, queues, runs>>
    /\ UNCHANGED <<loopVars, libVars>>

\* let rx = rx_arc.lock().unwrap()
SseLockRx(h) ==
    /\ sse[h].pc = "recv"
    /\ RxLockFree(sse[h].rx)
    /\ sse' = [sse EXCEPT ![h].pc = "receiving"]
    /\ UNCHANGED <<st, workers, stop_flags, queues, runs>>
    /\ UNCHANGED <<loopVars, libVars>>

\* What recv_timeout(500 ms) returns to handler h, the Receiver's lock being
\* released with it: a message, Disconnected once the queue is empty and the
\* Sender is gone, or Timeout (the ping is written and the loop goes on).
Received(h) ==
    IF queues[sse[h].rx] # <<>>
    THEN [sse[h] EXCEPT !.pc = "push", !.stats = Some(Head(queues[sse[h].rx]))]
    ELSE IF SenderAlive(sse[h].rx) THEN [sse[h] EXCEPT !.pc = "recv"]
    ELSE [sse[h] EXCEPT !.pc = "final"]

SseRecv(h) ==
    /\ sse[h].pc = "receiving"
    /\ sse' = [sse EXCEPT ![h] = Received(h)]
    /\ queues' = [queues EXCEPT ![sse[h].rx] = IF @ # <<>> THEN Tail(@) ELSE @]
    /\ UNCHANGED <<st, workers, stop_flags, runs>>
    /\ UNCHANGED <<loopVars, libVars>>

\* The Disconnected arm: the status read under the state lock decides the
\* last event, and the handler returns.
SseFinal(h) ==
    /\ sse[h].pc = "final"
    /\ StateLockFree
    /\ sse' = [sse EXCEPT ![h].pc = "closed", ![h].saw = Some(st.training)]
    /\ queues' = Dropped(queues, st.training, sse')
    /\ UNCHANGED <<st, workers, stop_flags, runs>>
    /\ UNCHANGED <<loopVars, libVars>>

\* st.epoch_history.push(stats) under the state lock, then the write.
SsePush(h) ==
    /\ sse[h].pc = "push"
    /\ StateLockFree
    /\ st' = [st EXCEPT !.epoch_history = Append(@, sse[h].stats[1])]
    /\ \E written \in BOOLEAN :
          sse' = [sse EXCEPT ![h] =
                     IF written THEN [@ EXCEPT !.pc = "recv", !.stats = None]
                     ELSE SseClosed]
    /\ queues' = Dropped(queues, st.training, sse')
    /\ UNCHANGED <<workers, stop_flags, runs>>
    /\ UNCHANGED <<loopVars, libVars>>

\* The replay, or the ping of a timed-out receive, fails to be written.
SseClientGone(h) ==
    /\ sse[h].pc = "recv"
    /\ sse' = [sse EXCEPT ![h] = SseClosed]
    /\ queues' = Dropped(queues, st.training, sse')
    /\ UNCHANGED <<st, workers, stop_flags, runs>>
    /\ UNCHANGED <<loopVars, libVars>>

NextStudio ==
    \/ handle_post
    \/ handle_upload
    \/ handle_start
    \/ handle_stop
    \/ \E r \in RunIds : WorkerTop(r)
    \/ \E r \in RunIds : WorkerEmit(r)
    \/ \E r \in RunIds : WorkerLoadStopped(r)
    \/ \E r \in RunIds : WorkerLock(r)
    \/ \E r \in RunIds : WorkerFinish(r)
    \/ \E h \in SseIds : SseExtract(h)
    \/ \E h \in SseIds : SseLockRx(h)
    \/ \E h \in SseIds : SseRecv(h)
    \/ \E h \in SseIds : SseFinal(h)
    \/ \E h \in SseIds : SsePush(h)
    \/ \E h \in SseIds : SseClientGone(h)

SpecStudio == InitStudio /\ [][NextStudio]_vars

(***************************************************************************)
(* Library calls on Matrix (src/math/matrix.rs): the arguments are drawn   *)
(* from small sets, the result is recorded in `call`.                      *)
(***************************************************************************)
Dims == 0..MaxDim

\* A well-formed r x c matrix with entries in {-1, 0, 1}.
Mat(r, c, s) ==
    [rows |-> r, cols |-> c,
     data |-> [i \in 1..r |-> [j \in 1..c |-> R(((2 * i + j + s) % 3) - 1)]]]

Matrices == {Mat(r, c, s) : r \in Dims, c \in Dims, s \in 0..1}

\* A Vec<Vec<f64>> whose row i has lens[i] entries.
RowsOf(lens) == [i \in 1..Len(lens) |-> [j \in 1..lens[i] |-> R(i - j)]]

\* Every Vec<Vec<f64>> of up to MaxDim rows of up to MaxDim entries each,
\* rows of equal and of unequal lengths.
RowsData == UNION {{RowsOf(lens) : lens \in [1..n -> Dims]} : n \in Dims}

\* The values a sampled entry takes in the model.
SampleValues == {R(-1), R(1)}

\* Matrix::zeros(rows, cols) with every entry overwritten by a sample.
Sampled(rows, cols) ==
    {[rows |-> rows, cols |-> cols, data |-> d] :
        d \in [1..rows -> [1..cols -> SampleValues]]}

random(rows, cols) == Sampled(rows, cols)
he(rows, cols) == Sampled(rows, cols)
xavier(rows, cols) == Sampled(rows, cols)

\* Matrix::default()
default == [rows |-> 0, cols |-> 0, data |-> <<>>]

\* The record of a call: its name, its arguments, what it returned.
Called(op, args, out) == [op |-> op, args |-> args, out |-> out]

call_zeros ==
    /\ LibIdle
    /\ \E rows \in Dims, cols \in Dims :
          call' = Called("zeros", <<rows, cols>>, zeros(rows, cols))
    /\ UNCHANGED <<net, loopVars, studioVars>>

call_random ==
    /\ LibIdle
    /\ \E rows \in Dims, cols \in Dims : \E m \in random(rows, cols) :
          call' = Called("random", <<rows, cols>>, m)
    /\ UNCHANGED <<net, loopVars, studioVars>>

call_he ==
    /\ LibIdle
    /\ \E rows \in Dims, cols \in Dims : \E m \in he(rows, cols) :
          call' = Called("he", <<rows, cols>>, m)
    /\ UNCHANGED <<net, loopVars, studioVars>>

call_xavier ==
    /\ LibIdle
    /\ \E rows \in Dims, cols \in Dims : \E m \in xavier(rows, cols) :
          call' = Called("xavier", <<rows, cols>>, m)
    /\ UNCHANGED <<net, loopVars, studioVars>>

call_from_data ==
    /\ LibIdle
    /\ \E data \in RowsData :
          call' = Called("from_data", <<data>>, from_data(data))
    /\ UNCHANGED <<net, loopVars, studioVars>>

call_default ==
    /\ LibIdle
    /\ call' = Called("default", <<>>, default)
    /\ UNCHANGED <<net, loopVars, studioVars>>

call_transpose ==
    /\ LibIdle
    /\ \E m \in Matrices :
          call' = Called("transpose", <<m>>, transpose(m))
    /\ UNCHANGED <<net, loopVars, studioVars>>

call_map ==
    /\ LibIdle
    /\ \E m \in Matrices, act \in {"ReLU", "Identity"} :
          call' = Called("map", <<m, act>>, map(m, [x \in EntriesOf(m) |-> function(act, x)]))
    /\ UNCHANGED <<net, loopVars, studioVars>>

call_add ==
    /\ LibIdle
    /\ \E a \in Matrices, b \in Matrices :
          call' = Called("add", <<a, b>>, add(a, b))
    /\ UNCHANGED <<net, loopVars, studioVars>>

call_sub ==
    /\ LibIdle
    /\ \E a \in Matrices, b \in Matrices :
          call' = Called("sub", <<a, b>>, sub(a, b))
    /\ UNCHANGED <<net, loopVars, studioVars>>

call_matmul ==
    /\ LibIdle
    /\ \E a \in Matrices, b \in Matrices :
          call' = Called("matmul", <<a, b>>, matmul(a, b))
    /\ UNCHANGED <<net, loopVars, studioVars>>

(***************************************************************************)
(* Library calls on the helpers of train_loop (src/train/loop_fn.rs).      *)
(***************************************************************************)
\* Vectors of up to MaxDim entries out of 0, 1/2, 1.
Vectors == UNION {[1..n -> {RZero, <<1, 2>>, ROne}] : n \in Dims}

call_argmax ==
    /\ LibIdle
    /\ \E v \in Vectors :
          call' = Called("argmax", <<v>>, argmax(v))
    /\ UNCHANGED <<net, loopVars, studioVars>>

\* Datasets for a 1 -> 2 Softmax classifier: scalar inputs, one-hot labels.
Datasets(n) ==
    [inputs : [1..n -> {<<RZero>>, <<ROne>>}],
     labels : [1..n -> {<<ROne, RZero>>, <<RZero, ROne>>}]]

call_compute_accuracy ==
    /\ LibIdle
    /\ \E n \in Dims, w0 \in {RZero, ROne} : \E d \in Datasets(n) :
          call' = Called("compute_accuracy", <<<<LayerNew(2, 1, "Softmax", w0)>>, d.inputs, d.labels>>,
                 compute_accuracy(<<LayerNew(2, 1, "Softmax", w0)>>, d.inputs, d.labels).val)
    /\ UNCHANGED <<net, loopVars, studioVars>>

(***************************************************************************)
(* Library calls on ActivationFunction and Layer.                           *)
(***************************************************************************)
Activations == {"ReLU", "Identity", "Softmax"}
Scalars == {R(-1), RZero, <<1, 2>>, ROne, R(2)}

call_function ==
    /\ LibIdle
    /\ \E act \in Activations, x \in Scalars :
          call' = Called("function", <<act, x>>, function(act, x))
    /\ UNCHANGED <<net, loopVars, studioVars>>

call_derivative ==
    /\ LibIdle
    /\ \E act \in Activations, x \in Scalars :
          call' = Called("derivative", <<act, x>>, derivative(act, x))
    /\ UNCHANGED <<net, loopVars, studioVars>>

\* Layers of 1..MaxDim neurons over 1..MaxDim inputs, and inputs of that width.
LayerInputs(input_size) == [1..input_size -> {R(-1), RZero, ROne}]

call_feed_from ==
    /\ LibIdle
    /\ \E size \in 1..MaxDim, input_size \in 1..MaxDim, act \in Activations, w0 \in {RZero, ROne} : \E input \in LayerInputs(input_size) :
          call' = Called("feed_from", <<LayerNew(size, input_size, act, w0), input>>,
                 feed_from(LayerNew(size, input_size, act, w0), input).out)
    /\ UNCHANGED <<net, loopVars, studioVars>>

\* Predictions strictly between 0 and 1 and 0/1 targets, of 1..MaxDim entries.
LossArgs ==
    UNION {[predicted : [1..n -> {<<1, 4>>, <<1, 2>>, <<3, 4>>}],
            expected : [1..n -> {RZero, ROne}]] : n \in 1..MaxDim}

call_compute_loss ==
    /\ LibIdle
    /\ \E a \in LossArgs, loss_type \in AllLossTypes :
          call' = Called("compute_loss", <<a.predicted, a.expected, loss_type>>,
                 compute_loss(a.predicted, a.expected, loss_type))
    /\ UNCHANGED <<net, loopVars, studioVars>>

call_compute_loss_derivative ==
    /\ LibIdle
    /\ \E a \in LossArgs, loss_type \in AllLossTypes :
          call' = Called("compute_loss_derivative", <<a.predicted, a.expected, loss_type>>,
                 compute_loss_derivative(a.predicted, a.expected, loss_type))
    /\ UNCHANGED <<net, loopVars, studioVars>>

(***************************************************************************)
(* A network built from an architecture (src/network/spec.rs,              *)
(* src/network/network.rs) and driven directly: Network::forward,          *)
(* Layer::compute_gradients over the layers, Sgd::step on every layer.     *)
(***************************************************************************)
\* One LayerSpec per layer; the input_size of a layer is the size of the
\* layer before it. Hidden layers are ReLU.
ArchOf(widths, last) ==
    [i \in 1..(Len(widths) - 1) |->
        [size |-> widths[i + 1], input_size |-> widths[i],
         activation |-> IF i = Len(widths) - 1 THEN last ELSE "ReLU"]]

\* Architectures of one and two layers, every width in 1..MaxDim.
Archs ==
    {ArchOf(widths, last) :
        widths \in [1..2 -> 1..MaxDim] \cup [1..3 -> 1..MaxDim],
        last \in {"Identity", "Softmax"}}

\* Network::new: one Layer::new per (size, input_size, activation).
NetworkNew(layer_specs) ==
    [i \in 1..Len(layer_specs) |->
        LayerNew(layer_specs[i].size, layer_specs[i].input_size,
                 layer_specs[i].activation, ROne)]

\* Input vectors of a given width.
InputsFor(width) ==
    {[j \in 1..width |-> ROne], [j \in 1..width |-> R((j % 3) - 1)]}

net_new == \E arch \in Archs :
    /\ LibIdle
    /\ net' = [layers |-> NetworkNew(arch), arch |-> arch, grads |-> None,
               nops |-> 0, op |-> "new", input |-> <<>>, out |-> <<>>]
    /\ UNCHANGED <<call, loopVars, studioVars>>

net_forward ==
    /\ net.layers # <<>>
    /\ net.nops < MaxOps
    /\ \E input \in InputsFor(net.arch[1].input_size) :
          net' = [net EXCEPT !.layers = forward(net.layers, input).layers,
                             !.out = forward(net.layers, input).out,
                             !.input = input,
                             !.op = "forward",
                             !.nops = @ + 1]
    /\ UNCHANGED <<call, loopVars, studioVars>>

\* The backward loop of run_one_epoch on the cached activations, from the
\* delta output - 2 (the error against a target of 2 in every output).
NetDelta(layers) ==
    from_data(<<[k \in 1..layers[Len(layers)].neurons.cols |->
                   RSub(layers[Len(layers)].neurons.data[1][k], R(2))]>>)

net_gradients ==
    /\ net.layers # <<>>
    /\ net.nops < MaxOps
    /\ \E input \in InputsFor(net.arch[1].input_size) :
          net' = [net EXCEPT
                    !.grads = Some(BackwardFrom(net.layers, Len(net.layers),
                                                NetDelta(net.layers), input,
                                                ZeroGrads(net.layers))),
                    !.op = "gradients",
                    !.nops = @ + 1]
    /\ UNCHANGED <<call, loopVars, studioVars>>

\* optimizer.step on every layer; the gradients are moved into the call.
net_step ==
    /\ net.grads # None
    /\ net.nops < MaxOps
    /\ net' = [net EXCEPT
                 !.layers = [i \in 1..Len(net.layers) |->
                               SgdStep([learning_rate |-> ROne], net.layers[i],
                                       net.grads[1][i][1], net.grads[1][i][2])],
                 !.grads = None,
                 !.op = "step",
                 !.nops = @ + 1]
    /\ UNCHANGED <<call, loopVars, studioVars>>

(***************************************************************************)
(* Network::save_json / load_json (src/network/network.rs): serde_json     *)
(* over the derived Serialize / Deserialize of Network, Layer and Matrix.  *)
(***************************************************************************)
\* An f64 beyond the finite range: what w - lr * g leaves in a weight when
\* the gradient g overflows (IEEE 754).
NegInfinity == <<-1, 0>>
IsFinite(x) == x[2] # 0

\* serde_json writes a finite f64 as a number and a non-finite one as null.
JsonNull == [json |-> "null"]
JsonNumber(x) == IF IsFinite(x) THEN [json |-> "number", value |-> x] ELSE JsonNull

\* The derived Serialize of Matrix: rows, cols, data.
MatrixToJson(m) ==
    [rows |-> m.rows, cols |-> m.cols,
     data |-> [i \in 1..Len(m.data) |->
                 [j \in 1..Len(m.data[i]) |-> JsonNumber(m.data[i][j])]]]

\* The derived Serialize of Layer: neurons and pre_neurons are skipped.
LayerToJson(layer) ==
    [size |-> layer.size,
     weights |-> MatrixToJson(layer.weights),
     biases |-> MatrixToJson(layer.biases),
     activator |-> layer.activator]

\* Network::save_json: the text written to the file.
save_json(layers) ==
    [layers |-> [i \in 1..Len(layers) |-> LayerToJson(layers[i])]]

\* Deserializing an f64 fails on null.
MatrixLoads(j) ==
    \A i \in 1..Len(j.data) : \A k \in 1..Len(j.data[i]) :
        j.data[i][k].json = "number"

MatrixFromJson(j) ==
    [rows |-> j.rows, cols |-> j.cols,
     data |-> [i \in 1..Len(j.data) |->
                 [k \in 1..Len(j.data[i]) |-> j.data[i][k].value]]]

\* The derived Deserialize of Layer: the skipped fields are Matrix::default().
LayerFromJson(j) ==
    [size |-> j.size,
     neurons |-> default,
     pre_neurons |-> default,
     weights |-> MatrixFromJson(j.weights),
     biases |-> MatrixFromJson(j.biases),
     activator |-> j.activator]

LoadErr == [ok |-> FALSE, layers |-> <<>>]

\* Network::load_json: Ok(network), or Err when the text does not parse
\* into a Network.
load_json(file) ==
    IF \A i \in 1..Len(file.layers) :
          MatrixLoads(file.layers[i].weights) /\ MatrixLoads(file.layers[i].biases)
    THEN [ok |-> TRUE,
          layers |-> [i \in 1..Len(file.layers) |-> LayerFromJson(file.layers[i])]]
    ELSE LoadErr

\* The first weight of the first layer after an SGD step whose gradient
\* overflowed: w - lr * inf.
Diverged(layers) ==
    [layers EXCEPT ![1].weights.data[1][1] = NegInfinity]

\* Networks to save: after a forward pass (the caches are filled), and after
\* a step that overflowed.
SavedNetworks ==
    UNION {{forward(NetworkNew(arch), input).layers :
               input \in InputsFor(arch[1].input_size)} : arch \in Archs}
    \cup {Diverged(NetworkNew(arch)) : arch \in Archs}

call_save_json ==
    /\ LibIdle
    /\ \E layers \in SavedNetworks :
          call' = Called("save_json", <<layers>>, save_json(layers))
    /\ UNCHANGED <<net, loopVars, studioVars>>

\* load_json on a file that save_json wrote; args keeps the network saved.
call_load_json ==
    /\ LibIdle
    /\ \E layers \in SavedNetworks :
          call' = Called("load_json", <<layers, save_json(layers)>>,
                         load_json(save_json(layers)))
    /\ UNCHANGED <<net, loopVars, studioVars>>

NextLib ==
    \/ call_zeros
    \/ call_random
    \/ call_he
    \/ call_xavier
    \/ call_from_data
    \/ call_default
    \/ call_transpose
    \/ call_map
    \/ call_add
    \/ call_sub
    \/ call_matmul
    \/ call_argmax
    \/ call_compute_accuracy
    \/ call_function
    \/ call_derivative
    \/ call_feed_from
    \/ call_compute_loss
    \/ call_compute_loss_derivative
    \/ net_new
    \/ net_forward
    \/ net_gradients
    \/ net_step
    \/ call_save_json
    \/ call_load_json

SpecLib == InitStudio /\ [][NextLib]_vars

(***************************************************************************)
(* Properties of train_loop and train_network, checked under Spec.         *)
(***************************************************************************)
\* C1: the k-th EpochStats sent carries epoch k (1-based) and total_epochs =
\* config.epochs, so the stats arrive in strictly increasing epoch order with
\* none skipped or repeated; never more are sent than epochs were completed.
C1_StatsInEpochOrder ==
    /\ \A k \in 1..Len(channel) :
          /\ channel[k].epoch = k
          /\ channel[k].total_epochs = config.epochs
    /\ Len(channel) <= hist.completed
    /\ Len(channel) <= hist.sends

C1_Witness == Len(channel) = 2 /\ pc = "returned"

\* C2: the flag is loaded once at the top of an epoch and once after its
\* emission; once the flag is set no new epoch starts, and at most the epoch
\* in progress completes and sends its one EpochStats.
C2_CooperativeStop ==
    /\ config.stop_flag =>
          /\ pc \in {"shuffle", "batch", "forward", "backward", "apply", "eval",
                     "emit", "bottom"} => hist.flag_loads = 2 * hist.started - 1
          /\ pc = "top" => hist.flag_loads = 2 * hist.started
    /\ ~config.stop_flag => hist.flag_loads = 0
    /\ hist.stop_at # None =>
          /\ hist.started = hist.stop_at[1].started
          /\ hist.completed <= hist.stop_at[1].completed + 1
          /\ hist.completed <= hist.started
          /\ Len(channel) <= hist.stop_at[1].sent + 1

\* The flag was set while epoch 1 of 2 was in progress; that epoch was
\* completed and sent, and the loop returned without a second one.
C2_Witness ==
    /\ pc = "returned"
    /\ hist.stop_at # None
    /\ hist.stop_at[1].started = 1 /\ hist.stop_at[1].completed = 0
    /\ hist.completed = 1 /\ Len(channel) = 1
    /\ config.epochs = 2

\* C3: when the flag is set before the first epoch starts, the loop runs at
\* most one epoch and sends at most one progress event.
C3_StopBeforeFirstEpoch ==
    (hist.stop_at # None /\ hist.stop_at[1].started = 0) =>
        /\ hist.started <= 1
        /\ hist.completed <= 1
        /\ hist.sends <= 1
        /\ Len(channel) <= 1

C3_Witness ==
    /\ pc = "returned"
    /\ hist.stop_at # None /\ hist.stop_at[1].started = 0
    /\ config.epochs = 2
    /\ result = Some(RZero)

\* C4: after a send failed on a dropped receiver the loop only returns: no
\* further epoch, forward pass, SGD step or send, and no panic.
C4_DisconnectedSinkStops ==
    hist.fail_at # None =>
        /\ pc \in {"return", "returned"}
        /\ hist.exit = "sink"
        /\ hist.forwards = hist.fail_at[1].forwards
        /\ hist.started = hist.fail_at[1].started
        /\ hist.steps = hist.fail_at[1].steps
        /\ hist.sends = hist.fail_at[1].sends
        /\ pc = "returned" => result = Some(last_train_loss)

C4_Witness ==
    /\ pc = "returned"
    /\ hist.fail_at # None
    /\ hist.started = 1 /\ config.epochs = 2

\* C5: on every exit path train_loop returns the mean of the per-sample
\* losses of the last epoch completed, which is the train_loss of the last
\* EpochStats built.
C5_ReturnsLastEpochMean ==
    (entry = "train_loop" /\ pc = "returned" /\ hist.completed > 0) =>
        /\ Len(hist.last_losses) = Len(train_inputs)
        /\ result = Some(RDiv(RSum(hist.last_losses), R(Len(train_inputs))))
        /\ stats # None
        /\ stats[1].epoch = hist.completed
        /\ result = Some(stats[1].train_loss)

\* Two epochs were completed and the second send found the receiver gone.
C5_Witness ==
    /\ entry = "train_loop" /\ pc = "returned"
    /\ hist.exit = "sink" /\ hist.completed = 2
    /\ Len(train_inputs) = 2
    /\ result # Some(RZero)

BadArguments ==
    \/ Len(train_inputs) = 0
    \/ Len(train_inputs) # Len(train_labels)
    \/ config.batch_size = 0

\* C6: with an empty training set, unequal input and label counts or a batch
\* size of 0, train_loop and train_network panic at entry: no forward pass,
\* no SGD step, no progress event, the network as it was passed in.
C6_FailFast ==
    /\ BadArguments =>
          /\ pc \in {"entry", "panicked"}
          /\ network = hist.network0
          /\ hist.forwards = 0 /\ hist.steps = 0 /\ hist.sends = 0
          /\ channel = <<>>
          /\ result = None
    /\ pc = "panicked" => BadArguments

C6_Witness ==
    /\ pc = "panicked"
    /\ config.batch_size = 0
    /\ Len(train_inputs) = 2 /\ Len(train_labels) = 2

CeilDiv(n, b) == (n + b - 1) \div b

\* The log of the last epoch is complete (until the next shuffle clears it).
EpochLogComplete ==
    /\ hist.completed > 0
    /\ pc \in {"eval", "emit", "bottom", "top", "shuffle", "return", "returned"}

\* C9: an epoch over n samples with batch size b is ceil(n/b) consecutive
\* batches, each of b samples but the last, which holds the rest; every
\* batch's gradient is scaled by 1 / (its own sample count).
C9_BatchPartition ==
    /\ \A k \in 1..Len(hist.batches) :
          /\ hist.batches[k].start = (k - 1) * config.batch_size
          /\ hist.batches[k].len >= 1
          /\ hist.batches[k].len <= config.batch_size
          /\ hist.batches[k].inv_batch = <<1, hist.batches[k].len>>
    /\ EpochLogComplete =>
          /\ Len(hist.batches) = CeilDiv(Len(train_inputs), config.batch_size)
          /\ \A k \in 1..Len(hist.batches) :
                hist.batches[k].len =
                    IF k < Len(hist.batches) THEN config.batch_size
                    ELSE Len(train_inputs)
                         - config.batch_size * (Len(hist.batches) - 1)

\* An epoch whose last batch is shorter than the batch size.
C9_Witness ==
    /\ EpochLogComplete
    /\ config.batch_size = 2
    /\ hist.batches[Len(hist.batches)].len = 1

\* C11: while a batch's samples are forwarded and back-propagated the
\* weights and biases of every layer are those the batch started with; the
\* SGD step is taken once per batch, after its last sample, so a completed
\* epoch over n samples with batch size b has taken ceil(n/b) steps.
C11_OneStepPerBatch ==
    /\ pc \in {"forward", "backward", "apply"} =>
          /\ Params(network) = hist.batch_params
          /\ Len(hist.batches) = run.batch_start \div config.batch_size
          /\ hist.steps = (hist.completed * CeilDiv(Len(train_inputs), config.batch_size)) + Len(hist.batches)
    /\ pc = "apply" => hist.in_batch = run.batch_end - run.batch_start
    /\ EpochLogComplete =>
          hist.steps = hist.completed * CeilDiv(Len(train_inputs), config.batch_size)

\* The second sample of a batch is about to be back-propagated, in an epoch
\* after one that changed the parameters.
C11_Witness ==
    /\ pc = "backward"
    /\ hist.in_batch = 2
    /\ hist.steps > 0
    /\ Params(network) # Params(hist.network0)

\* The analytic gradient of the sample last forwarded through the one layer
\* of the network: delta[k] = dLoss/dout[k] * act'(z[k]), dW[j][k] =
\* input[j] * delta[k], db = delta.
SampleDelta ==
    [k \in 1..Len(run.output) |->
        RMul(SampleError(run.output, run.expected)[k],
             derivative(network[1].activator, network[1].pre_neurons.data[1][k]))]

SampleWeightGrad ==
    [j \in 1..Len(run.input) |->
        [k \in 1..Len(run.output) |-> RMul(run.input[j], SampleDelta[k])]]

\* What "Average and apply" hands to optimizer.step for layer i: w = 1 the
\* weight gradient, w = 2 the bias gradient.
HandedToOptimizer(i, w) ==
    Scaled(run.acc_grads[i][w],
           InvBatch(run.batch_start, run.batch_end, config.batch_size)).data

\* C12: with batch_size = 1 the gradient handed to the optimizer after a
\* sample is that sample's analytic weight and bias gradient, divided by 1,
\* with nothing left in it from an earlier sample or batch.
C12_SingleSampleGradient ==
    (pc = "apply" /\ config.batch_size = 1) =>
        /\ hist.in_batch = 1
        /\ InvBatch(run.batch_start, run.batch_end, config.batch_size) = ROne
        /\ HandedToOptimizer(1, 1) = SampleWeightGrad
        /\ HandedToOptimizer(1, 2) = <<SampleDelta>>

\* A later sample of a batch-size-1 run, with a gradient that is not zero.
C12_Witness ==
    /\ pc = "apply"
    /\ config.batch_size = 1
    /\ hist.steps > 0
    /\ \E k \in 1..Len(run.output) : SampleDelta[k] # RZero
    /\ SampleWeightGrad[1][1] # RZero

\* Every EpochStats the run has built so far: those sent, and the last one.
StatsBuilt ==
    {channel[k] : k \in 1..Len(channel)} \cup (IF stats = None THEN {} ELSE {stats[1]})

\* C13: every EpochStats built by train_loop carries train_accuracy exactly
\* for CrossEntropy, val_loss exactly when validation inputs and validation
\* labels were both supplied, and val_accuracy exactly when both hold.
C13_OptionalFields ==
    \A s \in StatsBuilt :
        /\ (s.train_accuracy # None) <=> (config.loss_type = "CrossEntropy")
        /\ (s.val_loss # None) <=> (val_inputs # None /\ val_labels # None)
        /\ (s.val_accuracy # None) <=>
              /\ config.loss_type = "CrossEntropy"
              /\ val_inputs # None /\ val_labels # None

\* Stats with all three optional fields, and stats of a run that was given
\* validation inputs without validation labels.
C13_Witness ==
    /\ stats # None
    /\ stats[1].val_accuracy # None

C13_WitnessHalf ==
    /\ stats # None
    /\ val_inputs # None /\ val_labels = None
    /\ stats[1].val_loss = None
    /\ stats[1].train_accuracy # None

\* predicted - expected, element-wise.
PredictedMinusExpected ==
    [k \in 1..Len(run.output) |-> RSub(run.output[k], run.expected[k])]

\* A sample of a CrossEntropy run has just been back-propagated, alone in
\* its batch, through a final Softmax layer.
SoftmaxSampleDone ==
    /\ pc = "apply"
    /\ hist.in_batch = 1
    /\ config.loss_type = "CrossEntropy"
    /\ network[Len(network)].activator = "Softmax"

\* C15: for a final Softmax layer trained with CrossEntropy the initial
\* delta is predicted - expected, the activation-derivative factor is 1 at
\* every pre-activation value, and the layer delta (the bias gradient) that
\* compute_gradients returns is predicted - expected, unmodified.
C15_SoftmaxCrossEntropyDelta ==
    SoftmaxSampleDone =>
        /\ run.delta.data = <<PredictedMinusExpected>>
        /\ \A z \in EntriesOf(network[Len(network)].pre_neurons) :
              derivative("Softmax", z) = ROne
        /\ run.acc_grads[Len(network)][2].data = <<PredictedMinusExpected>>

\* Such a sample, after an earlier step moved the parameters, with a
\* prediction that differs from the label.
C15_Witness ==
    /\ SoftmaxSampleDone
    /\ hist.steps > 0
    /\ PredictedMinusExpected[1] # RZero
    /\ network[1].pre_neurons.data[1][1] # RZero

\* m has the shape rows x cols, in its fields and in its data.
HasShape(m, rows, cols) ==
    /\ ~IsPanic(m)
    /\ m.rows = rows /\ m.cols = cols
    /\ Len(m.data) = rows
    /\ \A i \in 1..Len(m.data) : Len(m.data[i]) = cols

SameShape(a, b) == a.rows = b.rows /\ a.cols = b.cols

\* C18: add and sub fail unless the operands have the same rows and cols,
\* matmul fails unless lhs.cols = rhs.rows; otherwise add and sub return a
\* matrix of the operands' shape and matmul one of lhs.rows x rhs.cols.
C18_ShapeChecks ==
    /\ call.op \in {"add", "sub"} =>
          IF SameShape(call.args[1], call.args[2])
          THEN HasShape(call.out, call.args[1].rows, call.args[1].cols)
          ELSE IsPanic(call.out)
    /\ call.op = "matmul" =>
          IF call.args[1].cols = call.args[2].rows
          THEN HasShape(call.out, call.args[1].rows, call.args[2].cols)
          ELSE IsPanic(call.out)

\* A product of a 1 x 2 by a 2 x 1 matrix, a refused product of operands
\* that differ only in the inner dimension, and a refused sum of operands
\* with equal rows and unequal cols.
C18_Witness ==
    /\ call.op = "matmul"
    /\ call.args[1].rows = 1 /\ call.args[1].cols = 2
    /\ call.args[2].rows = 2 /\ call.args[2].cols = 1
    /\ HasShape(call.out, 1, 1)

C18_WitnessRefused ==
    /\ call.op = "matmul"
    /\ call.args[1].rows = call.args[2].rows
    /\ call.args[1].cols # call.args[2].rows
    /\ IsPanic(call.out)

C18_WitnessAddRefused ==
    /\ call.op = "add"
    /\ call.args[1].rows = call.args[2].rows
    /\ call.args[1].cols # call.args[2].cols
    /\ IsPanic(call.out)

\* The factories and operators that return a Matrix.
MatrixOps ==
    {"zeros", "random", "he", "xavier", "from_data", "default", "transpose",
     "map", "add", "sub", "matmul"}

\* C19: every Matrix returned by a factory or operator has exactly `rows`
\* rows in its data, each of exactly `cols` entries.
C19_RepresentationInvariant ==
    (call.op \in MatrixOps /\ ~IsPanic(call.out)) =>
        HasShape(call.out, call.out.rows, call.out.cols)

\* The 0-based index of the first element no other element exceeds; 0 for
\* an empty vector.
FirstMax(v) ==
    IF Len(v) = 0 THEN 0
    ELSE (CHOOSE k \in 1..Len(v) :
            /\ \A j \in 1..Len(v) : RLeq(v[j], v[k])
            /\ \A j \in 1..(k - 1) : RLess(v[j], v[k])) - 1

\* The samples whose output and label have the same first maximum.
CorrectByFirstMax(layers, inputs, labels) ==
    {k \in 1..Len(inputs) :
        FirstMax(forward(layers, inputs[k]).out) = FirstMax(labels[k])}

\* C14: argmax returns the index of the first maximum (0 for an empty
\* vector), and accuracy is the fraction of the samples whose output and
\* label have the same argmax.
C14_ArgmaxFirstMaximum ==
    /\ call.op = "argmax" => call.out = FirstMax(call.args[1])
    /\ (call.op = "compute_accuracy" /\ Len(call.args[2]) > 0) =>
          call.out = RNorm(Cardinality(CorrectByFirstMax(call.args[1], call.args[2], call.args[3])),
                           Len(call.args[2]))

\* A forward pass of a Softmax layer that did not go through the scalar
\* `function`: no entry of the output is the panic value, and the output
\* is a distribution.
SoftmaxForwardClean ==
    /\ \A k \in 1..Len(call.out) : call.out[k] # ScalarPanic
    /\ RSum(call.out) = ROne

\* C16 as claimed: the scalar `function` and the scalar `derivative` of
\* Softmax both fail for every argument, and a forward pass of a Softmax
\* layer never calls the scalar `function`.
C16_SoftmaxScalarCallsFail ==
    /\ (call.op \in {"function", "derivative"} /\ call.args[1] = "Softmax") =>
          call.out = ScalarPanic
    /\ (call.op = "feed_from" /\ call.args[1].activator = "Softmax") =>
          SoftmaxForwardClean

\* C16, amended: the scalar `function` of Softmax fails for every argument,
\* the scalar `derivative` of Softmax returns 1 for every argument, and a
\* forward pass of a Softmax layer never calls the scalar `function`.
C16_SoftmaxScalarCalls ==
    /\ (call.op = "function" /\ call.args[1] = "Softmax") =>
          call.out = ScalarPanic
    /\ (call.op = "derivative" /\ call.args[1] = "Softmax") =>
          call.out = ROne
    /\ (call.op = "feed_from" /\ call.args[1].activator = "Softmax") =>
          SoftmaxForwardClean

\* The scalar function of Softmax called on a non-zero argument; its
\* derivative called on one; a forward pass of a two-neuron Softmax layer.
C16_Witness ==
    /\ call.op = "function"
    /\ call.args[1] = "Softmax"
    /\ call.args[2] # RZero
    /\ call.out = ScalarPanic

C16_WitnessDerivative ==
    /\ call.op = "derivative"
    /\ call.args[1] = "Softmax"
    /\ call.args[2] = R(2)

C16_WitnessForward ==
    /\ call.op = "feed_from"
    /\ call.args[1].activator = "Softmax"
    /\ Len(call.out) = 2
    /\ call.out[1] # call.out[2]

\* The loss and the derivative that belong to a LossType variant.
OwnLoss(loss_type, predicted, expected) ==
    CASE loss_type = "Mse" -> MseLoss_loss(predicted, expected)
      [] loss_type = "CrossEntropy" -> CrossEntropyLoss_loss(predicted, expected)
      [] loss_type = "BinaryCrossEntropy" -> BceLoss_loss(predicted, expected)
      [] loss_type = "Mae" -> MaeLoss_loss(predicted, expected)
      [] loss_type = "Huber" -> HuberLoss_loss(predicted, expected)

OwnDerivative(loss_type, predicted, expected) ==
    CASE loss_type = "Mse" -> MseLoss_derivative(predicted, expected)
      [] loss_type = "CrossEntropy" ->
            CrossEntropyLoss_derivative(predicted, expected)
      [] loss_type = "BinaryCrossEntropy" -> BceLoss_derivative(predicted, expected)
      [] loss_type = "Mae" -> MaeLoss_derivative(predicted, expected)
      [] loss_type = "Huber" -> HuberLoss_derivative(predicted, expected)

\* C17: for every LossType variant the sample loss and the initial error
\* delta of train_loop are computed by that variant's own loss and
\* derivative; no variant is left without one.
C17_ClosedDispatch ==
    /\ call.op = "compute_loss" =>
          /\ call.out = OwnLoss(call.args[3], call.args[1], call.args[2])
          /\ call.out # Unhandled
    /\ call.op = "compute_loss_derivative" =>
          /\ call.out = OwnDerivative(call.args[3], call.args[1], call.args[2])
          /\ call.out # Unhandled

\* The dispatch restricted to the variants that have an arm.
C17_HandledVariants ==
    (call.op \in {"compute_loss", "compute_loss_derivative"} /\ call.args[3] \in LossTypes) =>
        C17_ClosedDispatch

\* The width of what feeds layer i: the declared input width for the first
\* layer, the size of the layer before it for the others.
FedWidth(i) ==
    IF i = 1 THEN net.arch[1].input_size ELSE net.layers[i - 1].size

C10_EpochIsPermutation ==
    /\ \A i, j \in 1..Len(hist.processed) :
          hist.processed[i].idx = hist.processed[j].idx => i = j
    /\ \A i \in 1..Len(hist.processed) :
          /\ hist.processed[i].idx \in 0..(Len(train_inputs) - 1)
          /\ hist.processed[i].input = train_inputs[hist.processed[i].idx + 1]
          /\ hist.processed[i].expected = train_labels[hist.processed[i].idx + 1]
    /\ EpochLogComplete =>
          /\ Len(hist.processed) = Len(train_inputs)
          /\ {hist.processed[i].idx : i \in 1..Len(hist.processed)}
                = 0..(Len(train_inputs) - 1)

\* A completed epoch that processed sample 1 before sample 0.
C10_Witness ==
    /\ EpochLogComplete
    /\ Len(hist.processed) = 2
    /\ hist.processed[1].idx = 1 /\ hist.processed[2].idx = 0

\* What feed_from leaves in a layer's pre_neurons when it is fed a vector.
PreActivationOf(layer, fed) ==
    add(matmul(from_data(<<fed>>), layer.weights), layer.biases)

\* The vector layer i received in the last forward: the input for the first
\* layer, the output cached by layer i - 1 for the others.
ReceivedBy(i) ==
    IF i = 1 THEN net.input ELSE net.layers[i - 1].neurons.data[1]

\* C21: right after Network::forward on a network whose layers chain
\* (input_size of layer i+1 = size of layer i) and an input as wide as the
\* first layer's input_size, every layer was fed the output of the layer
\* declared before it (the first one the input), and the vector returned is
\* the last layer's output, as long as that layer's size.
C21_ForwardInOrder ==
    net.op = "forward" =>
        /\ \A i \in 1..Len(net.layers) :
              net.layers[i].pre_neurons
                  = PreActivationOf(net.layers[i], ReceivedBy(i))
        /\ net.out = net.layers[Len(net.layers)].neurons.data[1]
        /\ Len(net.out) = net.layers[Len(net.layers)].size

\* A forward through two layers of different sizes.
C21_Witness ==
    /\ net.op = "forward"
    /\ Len(net.layers) = 2
    /\ net.layers[1].size # net.layers[2].size
    /\ Len(net.out) = net.layers[2].size

\* The serialized fields of two layers agree.
SameLayer(a, b) ==
    /\ a.size = b.size
    /\ a.weights = b.weights
    /\ a.biases = b.biases
    /\ a.activator = b.activator

AllFinite(layers) ==
    \A i \in 1..Len(layers) : \A x \in EntriesOf(layers[i].weights) \cup EntriesOf(layers[i].biases) : IsFinite(x)

\* load_json gave back the network that was saved, up to the caches.
RoundTrips(saved, loaded) ==
    /\ loaded.ok
    /\ Len(loaded.layers) = Len(saved)
    /\ \A i \in 1..Len(saved) : SameLayer(saved[i], loaded.layers[i])
    /\ \A input \in InputsFor(saved[1].weights.rows) :
          forward(loaded.layers, input).out = forward(saved, input).out

\* C22: loading what save_json wrote gives a network with the same number
\* of layers, the same sizes, weight and bias matrices and activation tags,
\* and the same output of forward on every input, whatever the caches of
\* the saved network held.
C22_RoundTrip ==
    call.op = "load_json" => RoundTrips(call.args[1], call.out)

\* The same law for the networks whose weights and biases are all finite.
RoundTripOfFinite ==
    (call.op = "load_json" /\ AllFinite(call.args[1]))
        => RoundTrips(call.args[1], call.out)

\* A two-layer network with filled caches came back from its file.
RoundTripOfFiniteReached ==
    /\ call.op = "load_json"
    /\ Len(call.args[1]) = 2
    /\ call.args[1][1].neurons # default
    /\ call.out.ok

\* The state of the run: NotStarted before the call, Running inside it,
\* Failed after a panic, Completed when the epoch range was exhausted,
\* Cancelled when the loop was left by a break.
RunState ==
    CASE pc = "entry" -> "NotStarted"
      [] pc = "panicked" -> "Failed"
      [] pc = "returned" -> (IF hist.exit = "epochs" THEN "Completed" ELSE "Cancelled")
      [] OTHER -> "Running"

RunTransitions ==
    {<<"NotStarted", "Running">>, <<"NotStarted", "Failed">>,
     <<"Running", "Completed">>, <<"Running", "Cancelled">>}

\* What each terminal state stands for.
TerminalStateMeans ==
    /\ RunState = "Completed" => hist.completed = config.epochs
    /\ RunState = "Cancelled" =>
          \/ config.stop_flag /\ stop_flag
          \/ config.progress_tx /\ ~rx_alive
    /\ RunState = "Failed" =>
          ~Preconditions(train_inputs, train_labels, config.batch_size)

\* Nothing is done to the network or the channel, and nothing is counted.
RunQuiet ==
    /\ network' = network
    /\ channel' = channel
    /\ hist'.forwards = hist.forwards
    /\ hist'.steps = hist.steps
    /\ hist'.sends = hist.sends
    /\ hist'.completed = hist.completed

\* The steps that move pc are those of the calling thread, and each of its
\* steps moves pc.
PcMovesByLoopStep == [][(pc' # pc) <=> LoopStep]_vars

\* C23: a run goes NotStarted -> Running -> one terminal state and stays
\* there (a call whose assertions fail goes straight to Failed); Completed
\* means config.epochs epochs were completed, Cancelled that the stop flag
\* was set or the receiver dropped, Failed that an assertion did not hold;
\* never more than config.epochs epochs are completed; after the terminal
\* state no forward pass, SGD step or send happens; and every run whose
\* thread keeps being scheduled reaches a terminal state.
C23_RunStateMachine ==
    /\ [][RunState' # RunState => <<RunState, RunState'>> \in RunTransitions]_vars
    /\ [](TerminalStateMeans /\ hist.completed <= config.epochs)
    /\ [][Terminated => RunQuiet /\ RunState' = RunState]_vars
    /\ <>Terminated

\* A run was cancelled by the flag after completing an epoch, with an
\* epoch still to go.
C23_Witness ==
    /\ RunState = "Cancelled"
    /\ hist.exit = "stop_bottom"
    /\ hist.completed = 1 /\ config.epochs = 2

\* A run completed both its epochs.
C23_WitnessCompleted ==
    /\ RunState = "Completed"
    /\ hist.completed = 2

\* The call was refused: it panicked before any epoch started.
Rejected ==
    /\ pc = "panicked"
    /\ hist.started = 0 /\ hist.forwards = 0 /\ hist.steps = 0
    /\ hist.sends = 0

\* The call ended normally without doing anything: 0.0 was returned.
ReturnedUntouched ==
    /\ pc = "returned"
    /\ result = Some(RZero)
    /\ hist.started = 0 /\ hist.forwards = 0 /\ hist.steps = 0
    /\ hist.sends = 0
    /\ network = hist.network0

\* C24 (as claimed): train_loop rejects a TrainConfig with epochs < 1 or
\* batch_size < 1 before any epoch runs, and never modifies the
\* configuration.
C24_ConfigValidated ==
    /\ []((/\ entry = "train_loop"
           /\ config.epochs < 1 \/ config.batch_size < 1
           /\ pc # "entry") => Rejected)
    /\ [][config' = config]_vars

\* C24 (amended): train_loop rejects a TrainConfig with batch_size < 1
\* before any epoch runs; one with epochs < 1 (and batch_size >= 1, valid
\* training data) is not rejected: no epoch is started and the call returns
\* 0.0 with the network untouched; the configuration is never modified.
C24_BatchSizeValidated ==
    /\ []((/\ entry = "train_loop"
           /\ config.batch_size < 1
           /\ pc # "entry") => Rejected)
    /\ []((/\ entry = "train_loop"
           /\ config.epochs < 1
           /\ Preconditions(train_inputs, train_labels, config.batch_size)
           /\ Terminated) => ReturnedUntouched)
    /\ []((entry = "train_loop" /\ config.epochs < 1) => hist.started = 0)
    /\ [][config' = config]_vars

\* A call with epochs = 0 returned normally.
C24_Witness ==
    /\ entry = "train_loop"
    /\ config.epochs = 0 /\ config.batch_size = 2
    /\ ReturnedUntouched

\* A call with batch_size = 0 and valid training data was refused.
C24_WitnessRejected ==
    /\ entry = "train_loop"
    /\ config.batch_size = 0 /\ config.epochs = 2
    /\ Len(train_inputs) = 2 /\ Len(train_labels) = 2
    /\ Rejected

\* The vector layer i of the network under training was fed when the
\* sample held in run was forwarded.
SampleFedTo(i) ==
    IF i = 1 THEN run.input ELSE network[i - 1].neurons.data[1]

\* The caches of every layer are those of the forward pass of the sample
\* held in run, and its output is the last layer's cached output.
CachesOfSample ==
    /\ \A i \in 1..Len(network) :
          network[i].pre_neurons = PreActivationOf(network[i], SampleFedTo(i))
    /\ network[Len(network)].neurons.data[1] = run.output
    /\ forward(network, run.input).layers = network

\* The statements of run_one_epoch's batch loop.
InBatches == pc \in {"batch", "forward", "backward", "apply"}

\* C25: when the gradients of a training sample are about to be computed,
\* the sample held is the one at the current position of the shuffled
\* order and every layer's cached pre-activation and output are those of
\* its forward pass (no other forward pass ran in between); and while an
\* epoch's batches are processed the forward passes run so far are those of
\* the training samples processed plus the evaluations of the epochs
\* completed before, so the evaluation forwards run only after the epoch's
\* last batch was applied.
C25_ForwardThenGradients ==
    /\ pc = "backward" =>
          /\ run.input = train_inputs[run.indices[run.pos + 1] + 1]
          /\ CachesOfSample
    /\ InBatches =>
          hist.forwards = (hist.completed * (Len(train_inputs) + EvalForwards)) + Len(hist.processed)
    /\ pc = "eval" =>
          /\ run.batch_start >= Len(train_inputs)
          /\ hist.steps = hist.completed * CeilDiv(Len(train_inputs), config.batch_size)

\* The second sample of a batch of the second epoch is about to be
\* back-propagated, after an evaluation with validation data ran.
C25_Witness ==
    /\ pc = "backward"
    /\ hist.completed = 1 /\ IsCrossEntropy /\ HasValidation
    /\ run.pos = run.batch_start + 1
    /\ run.input # train_inputs[1]

\* C26: the evaluation of an epoch (training accuracy, validation loss,
\* validation accuracy) changes no weight and no bias, with or without a
\* validation set, and the parameters change only in the SGD step that
\* ends a batch: at the end of an epoch they are those left by its last
\* step.
C26_EvaluationDoesNotTrain ==
    [][/\ pc = "eval" => Params(network)' = Params(network)
       /\ Params(network)' # Params(network) => pc = "apply"]_vars

\* An evaluation with validation data ran after at least one step moved the
\* parameters: the caches are those of the last validation sample.
C26_Witness ==
    /\ pc = "emit"
    /\ HasValidation /\ IsCrossEntropy
    /\ Params(network) # Params(hist.network0)
    /\ network[1].pre_neurons
           = PreActivationOf(network[1], val_inputs[1][Len(val_inputs[1])])
    /\ network[1].pre_neurons
           # PreActivationOf(network[1], run.input)

\* An evaluation without validation data, for a loss without accuracy.
C26_WitnessNoValidation ==
    /\ pc = "emit"
    /\ ~HasValidation /\ ~IsCrossEntropy
    /\ Params(network) # Params(hist.network0)

\* The flag was stored before train_loop's first load of it.
StopSetAtEntry ==
    /\ entry = "train_loop"
    /\ hist.stop_at # None
    /\ hist.stop_at[1].started = 0

\* C28: when the stop flag is already set at train_loop's first check, no
\* epoch is started: no forward pass, no SGD step, nothing is sent, every
\* layer keeps its weights, biases and caches, and (when the assertions at
\* entry hold) the call returns 0.0, leaving the loop by the break at its
\* head.
C28_StoppedAtEntry ==
    StopSetAtEntry =>
        /\ hist.started = 0 /\ hist.completed = 0
        /\ hist.forwards = 0 /\ hist.steps = 0
        /\ hist.sends = 0 /\ channel = <<>>
        /\ network = hist.network0
        /\ pc \in {"entry", "top", "return", "returned", "panicked"}
        /\ pc = "returned" => result = Some(RZero)
        /\ (pc = "returned" /\ config.epochs >= 1) => hist.exit = "stop_top"

\* A call for two epochs with a live progress channel returned at once.
C28_Witness ==
    /\ StopSetAtEntry
    /\ pc = "returned"
    /\ hist.exit = "stop_top"
    /\ config.epochs = 2 /\ config.progress_tx /\ rx_alive
    /\ result = Some(RZero)
    /\ network = hist.network0

(***************************************************************************)
(* Properties of the studio, checked under SpecStudio.                     *)
(***************************************************************************)
\* The epochs the thread of run r ran to their end, and the epochs asked for.
EpochsCompleted(r) == workers[r].epoch
TotalEpochs(r) == workers[r].epochs

\* C27: when the status is Done for run r, was_stopped = true implies that
\* fewer than total_epochs epochs were completed, and a run that completed
\* all its epochs has was_stopped = false, whenever the Stop request came.
C27_WasStoppedMeansCutShort ==
    \A r \in RunIds :
        (st.training.kind = "Done" /\ st.training.run = r) =>
            /\ st.training.was_stopped => EpochsCompleted(r) < TotalEpochs(r)
            /\ EpochsCompleted(r) = TotalEpochs(r) => ~st.training.was_stopped

\* No events handler is running: each connection is unopened or returned.
HandlersReturned == \A h \in SseIds : sse[h].pc \in {"new", "closed"}

\* The EpochStats the thread of run r sent, in the order it sent them.
SentBy(r) == [i \in 1..workers[r].sent |-> [run |-> r, epoch |-> i]]

\* C29: once run r has reached Done or Failed and every events handler has
\* returned, epoch_history is the sequence of EpochStats the worker sent:
\* each one once, in increasing epoch order.
C29_HistoryIsWhatWasSent ==
    \A r \in RunIds :
        (/\ st.training.kind \in {"Done", "Failed"}
         /\ st.training.run = r
         /\ HandlersReturned) => st.epoch_history = SentBy(r)

AliveWorkers == {r \in RunIds : WorkerAlive(r)}

\* C7: across all interleavings of /train/start, /train/stop,
\* /architect/save and dataset loads, at most one training thread is alive.
C7_SingleWorker == Cardinality(AliveWorkers) <= 1

\* C8: trained_network is absent while the status is Running; when present,
\* the status is Done or Failed, written by the run that trained the network,
\* that run's thread has finished, and no later run was started since.
C8_HandOver ==
    /\ IsRunning => st.trained_network = None
    /\ st.trained_network # None =>
          /\ st.training.kind \in {"Done", "Failed"}
          /\ st.training.run = st.trained_network[1].run
          /\ ~WorkerAlive(st.trained_network[1].run)
          /\ st.trained_network[1].run = runs

\* A step of the training threads and of the events handlers.
ThreadsStep ==
    \/ \E r \in RunIds : WorkerTop(r) \/ WorkerEmit(r) \/ WorkerLoadStopped(r)
    \/ \E r \in RunIds : WorkerLock(r) \/ WorkerFinish(r)
    \/ \E h \in SseIds : SseLockRx(h) \/ SseRecv(h) \/ SsePush(h) \/ SseFinal(h)

\* Each lock has one holder at most, and while a training thread is alive
\* some thread can step: no thread holds one lock and waits for the other
\* in a cycle.
LocksNeverDeadlock ==
    /\ Cardinality(StateLockHeldBy) <= 1
    /\ \A r \in RunIds : Cardinality(RxLockHeldBy(r)) <= 1
    /\ (\E r \in RunIds : WorkerAlive(r)) => ENABLED ThreadsStep

\* The status handler h read after it observed the disconnect of its
\* Receiver is the Done or Failed of the run it streamed.
SawTerminal(h) ==
    sse[h].saw # None =>
        /\ sse[h].saw[1].kind \in {"Done", "Failed"}
        /\ sse[h].saw[1].run = sse[h].rx

\* C30: the training thread takes the Receiver's lock only inside the state
\* lock and an events handler holds the Receiver's lock without the state
\* lock, so the two never deadlock; the thread writes its terminal status
\* before its Sender is dropped, so an events handler that observes the
\* disconnect reads that terminal status.
C30_DisconnectSeesTerminal ==
    /\ LocksNeverDeadlock
    /\ \A h \in SseIds : SawTerminal(h)

====
